---- MODULE Spec2Model ----
(***************************************************************************)
(* A model of the hydap-api core: the lazy vector (InfiniteVector), the    *)
(* vector index (InfiniteVectorIndex) and the chain agglomerator.          *)
(*                                                                         *)
(* Numbers.  The program computes in float64.  The model uses generators   *)
(* whose values are small integers, so every sum of ComputeVectorSimilarity*)
(* is exact in float64 as well as here; a similarity is kept as the pair   *)
(* (numerator, squared denominator) and compared with a threshold without  *)
(* taking the root.  Thresholds are counted in tenths (5 is 0.5).          *)
(* Where elements are decimals the sums round: SpecFloat64 computes them   *)
(* in float64 itself, bit for bit.                                         *)
(***************************************************************************)
EXTENDS Integers, Sequences, FiniteSets, TLC

VARIABLES
    chains,       \* Agglomerator.chains: chain id -> Chain
    vectorIndex,  \* Agglomerator.vectorIndex: the global InfiniteVectorIndex
    lastReg,      \* history: chain id -> the chain last passed to RegisterChain, and
                  \* whether it replaced a different one
    db,           \* a stand-alone InfiniteVectorIndex
    lastIns,      \* history: record id -> the record last passed to db.Insert
    call,         \* the operation that ran last, its arguments and what it returned
    elements,     \* InfiniteVector.elements of the shared lazy vector
    mu,           \* InfiniteVector.mu: the goroutine holding it, or 0
    pc,           \* per goroutine: its position inside GetElement
    dimension,    \* per goroutine: the argument of its GetElement call
    val,          \* per goroutine: the generator value it is about to append
    lenAtLock,    \* history, per goroutine: len(elements) when it got the lock
    genCalls,     \* history: the indices the generator was invoked with, in order
    peers,        \* P2PInfiniteVectorNode.peers: node id -> PeerInfo
    routingVector,\* P2PInfiniteVectorNode.routingVector: dimension -> hash[0], in 255ths
    dataChannel,  \* P2PInfiniteVectorNode.dataChannel: the messages buffered in it
    records,      \* localDatabase.records: record id -> DatabaseRecord
    indexSpace,   \* localDatabase.indexSpace: the InfiniteVectorIndex QueryData searches
    ppc,          \* per client goroutine: its position inside the operation it is in
    job,          \* per client goroutine: the locals of the operation it is in
    started,      \* history: the number of operations clients have called
    txIds,        \* history of the concurrent runs: the transaction ids passed to
                  \* ProcessTransaction, and those passed to it more than once
    emitted,      \* history: the number of messages sent into dataChannel
    received,     \* history: the number of messages the dispatch task has received
    modules,      \* module name -> the module of that name: its state fields
    moduleRegistry \* ModuleRegistry: the names in its module map, and deps

aggVars == <<chains, vectorIndex, lastReg, txIds>>
idxVars == <<db, lastIns>>
vecVars == <<elements, mu, pc, dimension, val, lenAtLock, genCalls>>
modVars == <<modules, moduleRegistry>>
nodeVars == <<peers, routingVector, dataChannel, records, indexSpace, ppc, job,
              started, emitted, received>>
vars == <<chains, vectorIndex, lastReg, txIds, db, lastIns, call,
          elements, mu, pc, dimension, val, lenAtLock, genCalls,
          peers, routingVector, dataChannel, records, indexSpace, ppc, job,
          started, emitted, received>>

----------------------------------------------------------------------------
(* Bounds of the model *)

\* number of operations in one run of the agglomerator
MaxCalls == 3
\* number of operations in one run of the stand-alone index
MaxIdxCalls == 3
\* largest maxResults passed to QueryByDimension
MaxResultsArg == 2
\* number of goroutines calling GetElement on the shared vector
NumProcs == 2
\* largest dimension requested from the shared vector
MaxDim == 2

\* longest candidate list handed to findOptimalRoute, and longest EnabledChains
MaxCandidates == 2

\* number of operations the clients of the P2P node call in one run
MaxP2PCalls == 2
\* capacity of dataChannel: make(chan DataTransferMessage, 100) in the program, a
\* smaller buffer of the same kind here, so that runs fill it
DataChannelCap == 2
\* the number of elements of a vector ComputeVectorSimilarity is applied to
MaxSimLen == 3
\* the largest number of dimensions the float64 similarity runs over
MaxFloatDims == 6
\* longest list of singular values handed to DetermineOptimalRank
MaxValues == 3
\* the blocks handed to CompressBlock: every block up to MaxBlockLen values, and
\* one of LargeBlockLen values, large enough for a rank above 1 to pay off
MaxBlockLen == 4
LargeBlockLen == 2500
\* number of operations the goroutines call on the shared agglomerator in one run
MaxAggOps == 3

(* Program constants *)

\* the dimension window of Agglomerator.ProcessTransaction
QueryDims == 50
\* the dimension window of calculateRouteMetrics
RouteDims == 50
\* StoreData's replicationFactor
replicationFactor == 3
\* the dimensions computePeerSimilarity averages over
PeerSimilarityDims == 10
\* generateCandidatePeer draws candidateDimension from rand.Intn(10)
CandidateDims == 10
\* routePeerDiscovery draws routingDimension from rand.Intn(5)
RoutingDims == 5
\* QueryData's similarity threshold 0.7, in tenths
QueryDataThreshold == 7
\* QueryData's dimension window
QueryDataDims == 50

----------------------------------------------------------------------------
(* Generators.  A Go closure is named; Nil is the absent generator.        *)

Nil == "nil"
Fallback == "fallback"
GA == "alternating"
GB == "oddOrEighth"
\* the generator of the query vector of syncChains: 1.0 in every dimension
Wildcard == "one"
\* getDefaultGenerator's closure for a known protocol: the fallback times the
\* protocol's factor (speedFactor + finalityFactor + costFactor) / 3, which is > 0
ScaledFallback(protocol) ==
    CASE protocol = "btc" -> "fallback*btc"
      [] protocol = "eth" -> "fallback*eth"
      [] protocol = "sol" -> "fallback*sol"
      [] protocol = "dot" -> "fallback*dot"
ScaledFallbacks == {ScaledFallback(p) : p \in {"btc", "eth", "sol", "dot"}}

\* the generators a vector that can be evaluated carries
Generators == {Fallback, GA, GB}
\* what a caller may put into InfiniteVector.Generator
CallerGenerators == {Nil, GA, GB}

\* Insert's fallback sin(d) * exp(-d/10), rounded to the nearest integer:
\* 0, .76, .74, .10, -.51, -.58, -.15, .33, .44, .17, ... -> 0 1 1 0 -1 -1 0 0 ...
FallbackValue(d) ==
    IF d \in {1, 2} THEN 1 ELSE IF d \in {4, 5} THEN -1 ELSE 0

\* the value generator g yields for dimension d (g is not Nil).  The values of a
\* scaled fallback are counted in units of its factor: neither a similarity nor
\* the sign of an element depends on the unit.
Gen(g, d) ==
    CASE g = Fallback -> FallbackValue(d)
      [] g = GA -> d % 2
      [] g = GB -> IF d % 2 = 1 \/ d % 8 = 0 THEN 1 ELSE 0
      [] g \in ScaledFallbacks -> FallbackValue(d)
      [] g = Wildcard -> 1

\* InfiniteVector{Generator: g}: a vector as a caller builds it, nothing cached
NewVector(g) == [Generator |-> g, elements |-> <<>>]

\* GetElement on a private copy of v: the cached slot, else the generator's value
ElementOf(v, d) ==
    IF d < Len(v.elements) THEN v.elements[d + 1] ELSE Gen(v.Generator, d)

\* GetElement(d) for some d < n calls a nil Generator: the goroutine panics
Panics(v, n) == v.Generator = Nil /\ Len(v.elements) < n

----------------------------------------------------------------------------
(* ComputeVectorSimilarity *)

RECURSIVE Sums(_, _, _)
\* the five running sums of the loop over i in 0 .. n-1
Sums(v1, v2, n) ==
    IF n <= 0
    THEN [sumXY |-> 0, sumX |-> 0, sumY |-> 0, sumX2 |-> 0, sumY2 |-> 0]
    ELSE LET s == Sums(v1, v2, n - 1)
             x == ElementOf(v1, n - 1)
             y == ElementOf(v2, n - 1)
         IN  [sumXY |-> s.sumXY + x * y, sumX |-> s.sumX + x, sumY |-> s.sumY + y,
              sumX2 |-> s.sumX2 + x * x, sumY2 |-> s.sumY2 + y * y]

\* the vectors the index and the agglomerator compare
EvaluableVectors == {NewVector(g) : g \in Generators}

\* Sums over the 50-dimension window, evaluated once per pair of vectors
WindowSums ==
    {<<v1, v2, Sums(v1, v2, QueryDims)>> : v1 \in EvaluableVectors, v2 \in EvaluableVectors}

\* a faulty coefficient whose numerator is n * sumXY, without the product of the sums
ComputeVectorSimilarity_Uncentred(v1, v2, n) ==
    LET s == Sums(v1, v2, n)
    IN  [numerator |-> n * s.sumXY,
         denominator2 |-> (n * s.sumX2 - s.sumX * s.sumX) * (n * s.sumY2 - s.sumY * s.sumY)]

\* numerator and squared denominator of the Pearson coefficient
ComputeVectorSimilarity(v1, v2, n) ==
    LET s == IF n = QueryDims /\ v1 \in EvaluableVectors /\ v2 \in EvaluableVectors
             THEN (CHOOSE w \in WindowSums : w[1] = v1 /\ w[2] = v2)[3]
             ELSE Sums(v1, v2, n)
    IN  [numerator |-> n * s.sumXY - s.sumX * s.sumY,
         denominator2 |-> (n * s.sumX2 - s.sumX * s.sumX) * (n * s.sumY2 - s.sumY * s.sumY)]

\* similarity >= threshold, the threshold in tenths; a zero denominator yields 0
SimilarityAtLeast(sim, threshold) ==
    IF sim.denominator2 = 0
    THEN 0 >= threshold
    ELSE LET l == 10 * sim.numerator
             r == threshold * threshold * sim.denominator2
         IN  IF l >= 0 THEN threshold <= 0 \/ l * l >= r
                       ELSE threshold < 0 /\ l * l <= r

----------------------------------------------------------------------------
(* InfiniteVectorIndex *)

\* Go's nil map value
NilMetadata == [nil |-> TRUE]

\* make(map[...]...)
EmptyMap == [x \in {} |-> Nil]

NewInfiniteVectorIndex ==
    [vectorSpace |-> EmptyMap, dimensionGenerators |-> EmptyMap, metadataStore |-> EmptyMap]

\* m[k] = v on a Go map
MapSet(m, k, v) == [x \in DOMAIN m \cup {k} |-> IF x = k THEN v ELSE m[x]]

\* m[k] on a Go map of metadata: the zero value when k is absent
MetadataOf(index, id) ==
    IF id \in DOMAIN index.metadataStore THEN index.metadataStore[id] ELSE NilMetadata

DatabaseRecord(id, metadata, vector) == [ID |-> id, Metadata |-> metadata, Vector |-> vector]

\* a vector with no generator gets the fallback
WithFallback(vector) ==
    IF vector.Generator = Nil THEN [vector EXCEPT !.Generator = Fallback] ELSE vector

IndexDefineVectorSpace(index, spaceName, generator) ==
    [index EXCEPT !.dimensionGenerators = MapSet(@, spaceName, generator)]

\* a faulty Insert that does not overwrite a record that is already stored
IndexInsert_KeepFirst(index, record) ==
    IF record.ID \in DOMAIN index.vectorSpace THEN index
    ELSE [index EXCEPT !.vectorSpace = MapSet(@, record.ID, WithFallback(record.Vector)),
                       !.metadataStore = MapSet(@, record.ID, record.Metadata)]

\* a faulty Insert that writes into maps of its own: what was stored is lost
IndexInsert_Alone(index, record) ==
    [index EXCEPT !.vectorSpace = MapSet(EmptyMap, record.ID, WithFallback(record.Vector)),
                  !.metadataStore = MapSet(EmptyMap, record.ID, record.Metadata)]

\* Insert: both maps are written under record.ID
IndexInsert(index, record) ==
    [index EXCEPT !.vectorSpace = MapSet(@, record.ID, WithFallback(record.Vector)),
                  !.metadataStore = MapSet(@, record.ID, record.Metadata)]

\* the orders in which a range loop may visit the keys of a map
Orders(S) ==
    {o \in [1 .. Cardinality(S) -> S] : \A i, j \in DOMAIN o : o[i] = o[j] => i = j}

StoredRecord(index, id) == DatabaseRecord(id, MetadataOf(index, id), index.vectorSpace[id])

\* whether AdvancedQuery's loop body appends the record stored under id
Matches(index, id, similarityThreshold, queryVector, maxDimensions) ==
    SimilarityAtLeast(
        ComputeVectorSimilarity(queryVector, index.vectorSpace[id], maxDimensions),
        similarityThreshold)

RECURSIVE AdvancedQueryLoop_FirstOnly(_, _, _, _, _)
\* a faulty loop that stops at the first record reaching the threshold
AdvancedQueryLoop_FirstOnly(index, order, similarityThreshold, queryVector, maxDimensions) ==
    IF order = <<>> THEN <<>>
    ELSE IF Matches(index, Head(order), similarityThreshold, queryVector, maxDimensions)
         THEN <<StoredRecord(index, Head(order))>>
         ELSE AdvancedQueryLoop_FirstOnly(index, Tail(order), similarityThreshold,
                                          queryVector, maxDimensions)

RECURSIVE AdvancedQueryLoop(_, _, _, _, _)
\* the loop of AdvancedQuery: every record whose similarity reaches the threshold
AdvancedQueryLoop(index, order, similarityThreshold, queryVector, maxDimensions) ==
    IF order = <<>> THEN <<>>
    ELSE LET id == Head(order)
             rest == AdvancedQueryLoop(index, Tail(order), similarityThreshold,
                                       queryVector, maxDimensions)
         IN  IF Matches(index, id, similarityThreshold, queryVector, maxDimensions)
             THEN <<StoredRecord(index, id)>> \o rest ELSE rest

\* AdvancedQuery visiting the keys in `order`: it panics on a query vector without
\* generator as soon as there is a record to compare with
AdvancedQuery(index, order, similarityThreshold, queryVector, maxDimensions) ==
    IF order # <<>> /\ (Panics(queryVector, maxDimensions)
                        \/ \E id \in DOMAIN index.vectorSpace :
                               Panics(index.vectorSpace[id], maxDimensions))
    THEN [panic |-> TRUE, results |-> <<>>]
    ELSE [panic |-> FALSE,
          results |-> AdvancedQueryLoop(index, order, similarityThreshold,
                                        queryVector, maxDimensions)]

\* the predicates handed to QueryByDimension: vector.GetElement(k) > 0
Selects(k, vector) == ElementOf(vector, k) > 0

RECURSIVE QueryByDimensionLoop(_, _, _, _, _)
\* the loop: append a selected record, then stop once len(results) >= maxResults
QueryByDimensionLoop(index, order, k, maxResults, results) ==
    IF order = <<>> THEN results
    ELSE LET id == Head(order) IN
         IF Selects(k, index.vectorSpace[id])
         THEN LET appended == Append(results, StoredRecord(index, id)) IN
              IF Len(appended) >= maxResults THEN appended
              ELSE QueryByDimensionLoop(index, Tail(order), k, maxResults, appended)
         ELSE QueryByDimensionLoop(index, Tail(order), k, maxResults, results)

QueryByDimension(index, order, k, maxResults) ==
    QueryByDimensionLoop(index, order, k, maxResults, <<>>)

----------------------------------------------------------------------------
(* Agglomerator *)

NoErr == "nil"
ErrNoRouteFound == "no route found between chains"
ErrChainNotFound == "chain not found"
\* the call did not return: a nil function was called and the goroutine panicked
Panicked == "panic: nil pointer dereference"

NewAgglomerator == [chains |-> EmptyMap, vectorIndex |-> NewInfiniteVectorIndex]

\* the record RegisterChain inserts into the global index
ChainRecord(chain) ==
    DatabaseRecord(chain.ID,
                   [protocol |-> chain.Protocol, endpoint |-> chain.Endpoint],
                   chain.StateVector)

\* the record ProcessTransaction inserts into the global index and the pools
TransactionRecord(tx) ==
    DatabaseRecord(tx.ID, [fromChain |-> tx.FromChain, toChain |-> tx.ToChain],
                   tx.StateVector)

\* a faulty RegisterChain that leaves a chain registered before its old pool
AggRegisterChain_KeepPool(a, chain) ==
    [chains |-> MapSet(a.chains, chain.ID,
                       [chain EXCEPT !.TransactionPool =
                            IF chain.ID \in DOMAIN a.chains
                            THEN a.chains[chain.ID].TransactionPool
                            ELSE NewInfiniteVectorIndex]),
     vectorIndex |-> IndexInsert(a.vectorIndex, ChainRecord(chain))]

\* a faulty RegisterChain that ignores an id that is already registered
AggRegisterChain_KeepFirst(a, chain) ==
    IF chain.ID \in DOMAIN a.chains THEN a
    ELSE [chains |-> MapSet(a.chains, chain.ID,
                            [chain EXCEPT !.TransactionPool = NewInfiniteVectorIndex]),
          vectorIndex |-> IndexInsert(a.vectorIndex, ChainRecord(chain))]

\* RegisterChain: a fresh pool, the registry entry, the record in the global index
AggRegisterChain(a, chain) ==
    [chains |-> MapSet(a.chains, chain.ID,
                       [chain EXCEPT !.TransactionPool = NewInfiniteVectorIndex]),
     vectorIndex |-> IndexInsert(a.vectorIndex, ChainRecord(chain))]

\* a faulty pool insert that stores nothing
PoolInsert_Dropped(a, id, record) == a

\* Insert into the pool of the chain registered under id
PoolInsert(a, id, record) ==
    [a EXCEPT !.chains[id].TransactionPool = IndexInsert(@, record)]

\* a faulty ProcessTransaction that neither looks up nor fills the receiving chain
AggProcessTransaction_FromPoolOnly(a, order, tx) ==
    LET similarChains == AdvancedQuery(a.vectorIndex, order, tx.Similarity,
                                       tx.StateVector, QueryDims)
        inserted == [a EXCEPT !.vectorIndex = IndexInsert(@, TransactionRecord(tx))]
    IN  IF similarChains.panic THEN [a |-> a, err |-> Panicked]
        ELSE IF Len(similarChains.results) = 0 THEN [a |-> a, err |-> ErrNoRouteFound]
        ELSE IF tx.FromChain \notin DOMAIN a.chains
             THEN [a |-> inserted, err |-> ErrChainNotFound]
        ELSE [a |-> PoolInsert(inserted, tx.FromChain, TransactionRecord(tx)),
              err |-> NoErr]

\* a faulty ProcessTransaction that fills the pool of the sending chain before it
\* looks up the receiving one
AggProcessTransaction_EagerPool(a, order, tx) ==
    LET similarChains == AdvancedQuery(a.vectorIndex, order, tx.Similarity,
                                       tx.StateVector, QueryDims)
        inserted == [a EXCEPT !.vectorIndex = IndexInsert(@, TransactionRecord(tx))]
    IN  IF similarChains.panic THEN [a |-> a, err |-> Panicked]
        ELSE IF Len(similarChains.results) = 0 THEN [a |-> a, err |-> ErrNoRouteFound]
        ELSE IF tx.FromChain \notin DOMAIN a.chains
             THEN [a |-> inserted, err |-> ErrChainNotFound]
        ELSE IF tx.ToChain \notin DOMAIN a.chains
             THEN [a |-> PoolInsert(inserted, tx.FromChain, TransactionRecord(tx)),
                   err |-> ErrChainNotFound]
        ELSE [a |-> PoolInsert(PoolInsert(inserted, tx.FromChain, TransactionRecord(tx)),
                               tx.ToChain, TransactionRecord(tx)),
              err |-> NoErr]

\* ProcessTransaction: the query over `order`, the insert into the global index,
\* the two registry lookups, the inserts into the two pools
AggProcessTransaction(a, order, tx) ==
    LET similarChains == AdvancedQuery(a.vectorIndex, order, tx.Similarity,
                                       tx.StateVector, QueryDims)
        inserted == [a EXCEPT !.vectorIndex = IndexInsert(@, TransactionRecord(tx))]
    IN  IF similarChains.panic THEN [a |-> a, err |-> Panicked]
        ELSE IF Len(similarChains.results) = 0 THEN [a |-> a, err |-> ErrNoRouteFound]
        ELSE IF tx.FromChain \notin DOMAIN a.chains
             THEN [a |-> inserted, err |-> ErrChainNotFound]
        ELSE IF tx.ToChain \notin DOMAIN a.chains
             THEN [a |-> inserted, err |-> ErrChainNotFound]
        ELSE [a |-> PoolInsert(PoolInsert(inserted, tx.FromChain, TransactionRecord(tx)),
                               tx.ToChain, TransactionRecord(tx)),
              err |-> NoErr]

\* ListChains: the registered chains in the order the range loop visits them
AggListChains(a, order) == [i \in DOMAIN order |-> a.chains[order[i]]]

NoChain == [nil |-> TRUE]

\* GetChain: the registered chain, or ErrChainNotFound
AggGetChain(a, id) ==
    IF id \in DOMAIN a.chains
    THEN [chain |-> a.chains[id], err |-> NoErr]
    ELSE [chain |-> NoChain, err |-> ErrChainNotFound]

----------------------------------------------------------------------------
(* Protocols and the route scorer.  Metrics and scores are counted in          *)
(* millionths; math.Log is a table over the TPS values of protocolConfigs.     *)
(* Scores of different protocols lie thousands of millionths apart and         *)
(* similarities of the model's vectors a quarter apart, so the rounding of a   *)
(* score to a millionth neither makes nor breaks a tie.                        *)

ProtocolBitcoin == "btc"
ProtocolEthereum == "eth"
ProtocolSolana == "sol"
ProtocolPolkadot == "dot"
Unknown == "unknown"

\* BlockTime in tenths of a second, the other times in seconds, CostWeight in tenths
protocolConfigs ==
    [p \in {ProtocolBitcoin, ProtocolEthereum, ProtocolSolana, ProtocolPolkadot} |->
        CASE p = ProtocolBitcoin ->
                 [ID |-> p, BlockTime |-> 6000, ConfirmationTime |-> 3600, TPS |-> 7,
                  Finality |-> 3600, CostWeight |-> 10]
          [] p = ProtocolEthereum ->
                 [ID |-> p, BlockTime |-> 120, ConfirmationTime |-> 180, TPS |-> 15,
                  Finality |-> 180, CostWeight |-> 8]
          [] p = ProtocolSolana ->
                 [ID |-> p, BlockTime |-> 4, ConfirmationTime |-> 2, TPS |-> 65000,
                  Finality |-> 2, CostWeight |-> 1]
          [] p = ProtocolPolkadot ->
                 [ID |-> p, BlockTime |-> 60, ConfirmationTime |-> 30, TPS |-> 1000,
                  Finality |-> 30, CostWeight |-> 5]]

NoConfig == [nil |-> TRUE]

getProtocolConfig(protocol) ==
    IF protocol \in DOMAIN protocolConfigs
    THEN [config |-> protocolConfigs[protocol], exists |-> TRUE]
    ELSE [config |-> NoConfig, exists |-> FALSE]

\* the lookup table of determineProtocol: eight names, else "unknown"
determineProtocol(chainID) ==
    CASE chainID \in {"bitcoin", "btc"} -> ProtocolBitcoin
      [] chainID \in {"ethereum", "eth"} -> ProtocolEthereum
      [] chainID \in {"solana", "sol"} -> ProtocolSolana
      [] chainID \in {"polkadot", "dot"} -> ProtocolPolkadot
      [] OTHER -> Unknown

\* the generator Initialize gives the chain named chainID
getDefaultGenerator(chainID) ==
    IF getProtocolConfig(determineProtocol(chainID)).exists
    THEN ScaledFallback(determineProtocol(chainID))
    ELSE Fallback

\* math.Log(1 + tps) in millionths
Log1p(tps) ==
    CASE tps = 7 -> 2079442
      [] tps = 15 -> 2772589
      [] tps = 1000 -> 6908755
      [] tps = 65000 -> 11082158

RECURSIVE SqrtBetween(_, _, _)
\* the largest r in lo .. hi with r * r <= x, by bisection
SqrtBetween(x, lo, hi) ==
    IF lo = hi THEN lo
    ELSE LET mid == (lo + hi + 1) \div 2 IN
         IF mid * mid <= x THEN SqrtBetween(x, mid, hi) ELSE SqrtBetween(x, lo, mid - 1)

\* math.Sqrt on the squared denominators of the model, which are below 2^31
Sqrt(x) == SqrtBetween(x, 0, IF x < 46340 THEN x ELSE 46340)

\* a faulty result that divides by the product under the root, not by its root
SimilarityValue_NoRoot(sim) ==
    IF sim.denominator2 = 0 THEN 0
    ELSE ((1000 * sim.numerator) \div sim.denominator2) * 1000

\* the float64 result of ComputeVectorSimilarity in millionths: numerator over the
\* root of the squared denominator, 0 when the denominator is 0
SimilarityValue(sim) ==
    IF sim.denominator2 = 0 THEN 0
    ELSE ((1000 * sim.numerator) \div Sqrt(sim.denominator2)) * 1000

\* the similarities over the 50-dimension window, evaluated once per pair
WindowSimilarity ==
    {<<v1, v2, SimilarityValue(ComputeVectorSimilarity(v1, v2, RouteDims))>> :
        v1 \in EvaluableVectors, v2 \in EvaluableVectors}

RouteMetrics(speed, finality, cost, similarity) ==
    [Speed |-> speed, Finality |-> finality, Cost |-> cost, Similarity |-> similarity]

\* calculateRouteMetrics: the protocol is looked up under the chain's ID
calculateRouteMetrics(chain, tx) ==
    LET c == getProtocolConfig(determineProtocol(chain.ID)) IN
    IF ~c.exists THEN RouteMetrics(0, 0, 0, 0)
    ELSE RouteMetrics(
             (10 * Log1p(c.config.TPS)) \div c.config.BlockTime,
             1000000 \div c.config.Finality,
             1000000 - 100000 * c.config.CostWeight,
             (CHOOSE w \in WindowSimilarity :
                  w[1] = chain.StateVector /\ w[2] = tx.StateVector)[3])

\* evaluateRoute: the weights .3, .25, .2 and .25 in hundredths
evaluateRoute(metrics) ==
    (30 * metrics.Speed + 25 * metrics.Finality + 20 * metrics.Cost
        + 25 * metrics.Similarity) \div 100

\* a faulty comparison that lets a later candidate of equal score win
Improves_OrEqual(score, bestScore) == score >= bestScore

\* the comparison of findOptimalRoute's loop
Improves(score, bestScore) == score > bestScore

RECURSIVE findOptimalRouteLoop(_, _, _, _)
\* the loop of findOptimalRoute over the candidates not yet scored
findOptimalRouteLoop(candidates, tx, bestRoute, bestScore) ==
    IF candidates = <<>> THEN bestRoute
    ELSE LET score == evaluateRoute(calculateRouteMetrics(Head(candidates), tx)) IN
         IF Improves(score, bestScore)
         THEN findOptimalRouteLoop(Tail(candidates), tx, <<Head(candidates)>>, score)
         ELSE findOptimalRouteLoop(Tail(candidates), tx, bestRoute, bestScore)

\* findOptimalRoute: bestRoute starts as nil and bestScore as 0
findOptimalRoute(candidates, tx) == findOptimalRouteLoop(candidates, tx, <<>>, 0)

\* the chain Initialize builds for one entry of EnabledChains: the tag and the
\* generator come from the entry's id, the endpoint is left empty
ConfiguredChain(chainConfig) ==
    [ID |-> chainConfig.ID, Endpoint |-> "",
     Protocol |-> determineProtocol(chainConfig.ID),
     StateVector |-> NewVector(getDefaultGenerator(chainConfig.ID))]

RECURSIVE InitializeChains(_, _)
\* the loop of Initialize over EnabledChains, registering into agglomerator a
InitializeChains(a, enabledChains) ==
    IF enabledChains = <<>> THEN a
    ELSE InitializeChains(AggRegisterChain(a, ConfiguredChain(Head(enabledChains))),
                          Tail(enabledChains))

----------------------------------------------------------------------------
(* P2PInfiniteVectorNode.  An element of the routing vector is hash[0] / 255 for  *)
(* a byte hash[0]; the model keeps the byte, so reputations and routing values    *)
(* are counted in 255ths and a peer similarity in 2550ths.  Where the program's   *)
(* float sums differ only by rounding the model sees a tie and allows either      *)
(* order.  Addresses and time stamps take no part in any decision and are left    *)
(* out of PeerInfo and of the messages.                                           *)

\* NodeID of this node
SelfID == "self"

\* the routing vector of one node id: all bytes 0 but one
RoutingA == [i \in 0 .. CandidateDims - 1 |-> IF i = 1 THEN 255 ELSE 0]
\* the routing vector of another node id, with bytes next to the middle
RoutingB ==
    [i \in 0 .. CandidateDims - 1 |->
        CASE i = 0 -> 0 [] i = 1 -> 127 [] OTHER -> 128]
RoutingVectors == {RoutingA, RoutingB}

PeerInfo(nodeID, reputation) == [NodeID |-> nodeID, Reputation |-> reputation]

Abs(x) == IF x < 0 THEN -x ELSE x

\* math.Abs(routingValue - peerValue) < 0.5
CloseEnough(routingValue, peerValue) == 2 * Abs(routingValue - peerValue) < 255

\* a faulty connectToPeer that replaces the entry of a peer it already knows
connectToPeer_Overwrite(table, peer) == MapSet(table, peer.NodeID, peer)

\* connectToPeer, under peerMutex: a known node id is left alone
connectToPeer(table, peer) ==
    IF peer.NodeID \in DOMAIN table THEN table ELSE MapSet(table, peer.NodeID, peer)

\* routePeerDiscovery with the routing dimension it drew
routePeerDiscovery(table, routing, peer, routingDimension) ==
    IF CloseEnough(routing[routingDimension], peer.Reputation)
    THEN connectToPeer(table, peer)
    ELSE table

RECURSIVE DistanceSum(_, _, _)
\* the sum of |peer.Reputation - routingVector[i]| over i < n
DistanceSum(routing, peer, n) ==
    IF n = 0 THEN 0
    ELSE DistanceSum(routing, peer, n - 1) + Abs(peer.Reputation - routing[n - 1])

\* computePeerSimilarity: the mean of 1 - |difference| over ten dimensions
computePeerSimilarity(routing, peer) ==
    255 * PeerSimilarityDims - DistanceSum(routing, peer, PeerSimilarityDims)

\* a faulty sort that leaves the peers in the order of the map iteration
SortedBySimilarity_Unsorted(table, routing, order) == TRUE

\* what sort.Slice leaves: no peer precedes one of strictly greater similarity
SortedBySimilarity(table, routing, order) ==
    \A i, j \in DOMAIN order :
        i < j => computePeerSimilarity(routing, table[order[i]])
                     >= computePeerSimilarity(routing, table[order[j]])

Min(a, b) == IF a <= b THEN a ELSE b

\* selectReplicationPeers, under peerMutex: the first `count` peers of the sorted
\* list `order`, as node ids
selectReplicationPeers(order, count) == SubSeq(order, 1, Min(count, Len(order)))

DataTransferMessage(senderID, recipientID, dataID) ==
    [SenderID |-> senderID, RecipientID |-> recipientID, DataID |-> dataID,
     Payload |-> <<>>]

\* a faulty send that does not wait for room in the buffer
ChannelHasRoom_Always(channel) == TRUE

\* node.dataChannel <- dataMsg can complete
ChannelHasRoom(channel) == Len(channel) < DataChannelCap

\* processDataTransfer: the peers a received message is passed on to; the
\* function's body is empty
processDataTransfer(msg) == {}

\* queryPeer: the simulated remote query returns no record
queryPeer(msg) == <<>>

RECURSIVE QueryPeers(_)
\* the loop of QueryData over the peers in `peerOrder`
QueryPeers(peerOrder) ==
    IF peerOrder = <<>> THEN <<>>
    ELSE queryPeer(DataTransferMessage(SelfID, Head(peerOrder), ""))
             \o QueryPeers(Tail(peerOrder))

\* the loop of QueryData that appends every peer's answer to the local results
WithPeerResults(localResults, peerOrder) ==
    [panic |-> localResults.panic,
     results |-> IF localResults.panic THEN <<>>
                 ELSE localResults.results \o QueryPeers(peerOrder)]

\* QueryData: AdvancedQuery on localDatabase.indexSpace, then every peer's answer
QueryData(index, order, peerOrder, queryVector) ==
    WithPeerResults(AdvancedQuery(index, order, QueryDataThreshold, queryVector,
                                  QueryDataDims),
                    peerOrder)

\* a faulty store that drops the record
StoreLocally_Skip(table, record) == table

\* node.localDatabase.records[record.ID] = record, under the database's lock
StoreLocally(table, record) == MapSet(table, record.ID, record)

----------------------------------------------------------------------------
(* P2PAgglomerator *)

\* a faulty record that lacks the type tag
P2PChainRecord_Untagged(chain) ==
    DatabaseRecord(chain.ID, [protocol |-> chain.Protocol, endpoint |-> chain.Endpoint],
                   chain.StateVector)

\* the record P2PAgglomerator.RegisterChain hands to StoreData
P2PChainRecord(chain) ==
    DatabaseRecord(chain.ID,
                   [protocol |-> chain.Protocol, endpoint |-> chain.Endpoint,
                    type |-> "chain_registration"],
                   chain.StateVector)

\* the record P2PAgglomerator.ProcessTransaction hands to StoreData
P2PTransactionRecord(tx) ==
    DatabaseRecord(tx.ID,
                   [fromChain |-> tx.FromChain, toChain |-> tx.ToChain,
                    type |-> "transaction"],
                   tx.StateVector)

\* the record processLocalChain inserts into the pool of a local chain
LocalHopRecord(tx, chainID) ==
    DatabaseRecord(tx.ID \o "_" \o chainID, [status |-> "processing", chain |-> chainID],
                   tx.StateVector)

\* the record processPeerChain hands to StoreData
PeerHopRecord(tx, chainID) ==
    DatabaseRecord(tx.ID \o "_" \o chainID,
                   [type |-> "peer_transaction", chain |-> chainID, status |-> "pending"],
                   tx.StateVector)

\* whether findP2POptimalRoute takes a query result for a chain
IsChainRegistration(result) ==
    /\ "type" \in DOMAIN result.Metadata
    /\ result.Metadata.type = "chain_registration"

RECURSIVE CandidateChains(_)
\* the loop of findP2POptimalRoute over the query results
CandidateChains(results) ==
    IF results = <<>> THEN <<>>
    ELSE IF IsChainRegistration(Head(results))
         THEN <<[ID |-> Head(results).ID, Protocol |-> Head(results).Metadata.protocol,
                 Endpoint |-> Head(results).Metadata.endpoint,
                 StateVector |-> Head(results).Vector]>>
                  \o CandidateChains(Tail(results))
         ELSE CandidateChains(Tail(results))

\* what findP2POptimalRoute returns for the route findOptimalRoute chose: the
\* route as chain ids, ErrNoRouteFound for an empty one
RouteResult(panic, candidateChains, route) ==
    IF panic
    THEN [candidates |-> <<>>, routeIDs |-> <<>>, err |-> Panicked]
    ELSE IF Len(route) = 0
         THEN [candidates |-> candidateChains, routeIDs |-> <<>>, err |-> ErrNoRouteFound]
    ELSE [candidates |-> candidateChains,
          routeIDs |-> [i \in DOMAIN route |-> route[i].ID], err |-> NoErr]

\* findP2POptimalRoute from the candidate chains on
RouteAmong(panic, candidateChains, tx) ==
    RouteResult(panic, candidateChains, findOptimalRoute(candidateChains, tx))

\* findP2POptimalRoute from the results of QueryData on
RouteFromQuery(q, tx) == RouteAmong(q.panic, CandidateChains(q.results), tx)

\* findP2POptimalRoute: the query, the candidates, the route
findP2POptimalRoute(index, order, peerOrder, tx) ==
    RouteFromQuery(QueryData(index, order, peerOrder, tx.StateVector), tx)

----------------------------------------------------------------------------
(* The inputs of the agglomerator's operations *)

ChainIds == {"eth-1", "btc-1"}
Protocols == {"eth", "btc"}
Endpoints == {"http://localhost:8545"}
\* a transaction id may collide with a chain id: both are keys of the global index
TxIds == {"tx1", "eth-1"}
\* Transaction.Similarity in tenths: 0.5 and 1.0
Thresholds == {5, 10}

\* a chain as a caller passes it: no pool yet.  Every call passes a Chain object of
\* its own, as the API handler and the module's Initialize do; a chain decoded
\* from a request body carries no generator.
ChainArgs ==
    [ID : ChainIds, Endpoint : Endpoints, Protocol : Protocols,
     StateVector : {NewVector(g) : g \in {Nil, GA}}]

TxArgs ==
    [ID : TxIds, FromChain : ChainIds, ToChain : ChainIds,
     StateVector : {NewVector(g) : g \in CallerGenerators}, Similarity : Thresholds]

\* the chain object once RegisterChain has given it its pool
WithPool(chain, pool) ==
    [ID |-> chain.ID, Endpoint |-> chain.Endpoint, Protocol |-> chain.Protocol,
     StateVector |-> chain.StateVector, TransactionPool |-> pool]

Agg == [chains |-> chains, vectorIndex |-> vectorIndex]

\* the process is alive and the run may go on
AggReady == call.n < MaxCalls /\ call.err # Panicked

RegisterChain ==
    /\ AggReady
    /\ \E chain \in ChainArgs :
        LET a == AggRegisterChain(Agg, WithPool(chain, NewInfiniteVectorIndex)) IN
        /\ chains' = a.chains
        /\ vectorIndex' = a.vectorIndex
        /\ lastReg' = MapSet(lastReg, chain.ID,
                             [last |-> chain,
                              replaced |-> /\ chain.ID \in DOMAIN lastReg
                                           /\ \/ lastReg[chain.ID].replaced
                                              \/ lastReg[chain.ID].last # chain])
        /\ call' = [op |-> "RegisterChain", n |-> call.n + 1, chain |-> chain,
                    hadTransactions |->
                        /\ chain.ID \in DOMAIN chains
                        /\ DOMAIN chains[chain.ID].TransactionPool.vectorSpace # {},
                    err |-> NoErr]
        /\ UNCHANGED <<txIds, idxVars, vecVars, modVars, nodeVars>>

\* the range loop of the query may visit the records in any order
ProcessTransaction ==
    /\ AggReady
    /\ \E order \in Orders(DOMAIN vectorIndex.vectorSpace) : \E tx \in TxArgs :
        LET r == AggProcessTransaction(Agg, order, tx) IN
        /\ chains' = r.a.chains
        /\ vectorIndex' = r.a.vectorIndex
        /\ call' = [op |-> "ProcessTransaction", n |-> call.n + 1, tx |-> tx,
                    err |-> r.err]
        /\ UNCHANGED <<lastReg, txIds, idxVars, vecVars, modVars, nodeVars>>

ListChains ==
    /\ AggReady
    /\ \E order \in Orders(DOMAIN chains) :
        /\ call' = [op |-> "ListChains", n |-> call.n + 1,
                    chains |-> AggListChains(Agg, order), err |-> NoErr]
        /\ UNCHANGED <<aggVars, idxVars, vecVars, modVars, nodeVars>>

GetChain ==
    /\ AggReady
    /\ \E id \in ChainIds :
        LET r == AggGetChain(Agg, id) IN
        /\ call' = [op |-> "GetChain", n |-> call.n + 1, id |-> id,
                    chain |-> r.chain, err |-> r.err]
        /\ UNCHANGED <<aggVars, idxVars, vecVars, modVars, nodeVars>>

NoCall == [op |-> "none", n |-> 0, err |-> NoErr]

\* the lazy vector, untouched and unlocked
VecIdle ==
    /\ elements = <<>>
    /\ mu = 0
    /\ pc = [p \in 1 .. NumProcs |-> "idle"]
    /\ dimension = [p \in 1 .. NumProcs |-> 0]
    /\ val = [p \in 1 .. NumProcs |-> 0]
    /\ lenAtLock = [p \in 1 .. NumProcs |-> 0]
    /\ genCalls = <<>>

\* the goroutines that call into the P2P node
Clients == {"c1", "c2"}

\* the locals of a client goroutine that is in no operation
NoJob == [op |-> "none"]

\* the node as NewP2PAgglomerator leaves it, its tasks started, no client in it
NodeIdle ==
    /\ dataChannel = <<>>
    /\ records = EmptyMap
    /\ indexSpace = NewInfiniteVectorIndex
    /\ ppc = [c \in Clients |-> "idle"]
    /\ job = [c \in Clients |-> NoJob]
    /\ started = 0
    /\ emitted = 0
    /\ received = 0

\* ModuleState and its String()
StateUninitialized == "uninitialized"
StateInitialized == "initialized"
StateRunning == "running"
StatePaused == "paused"
StateError == "error"

AgglomeratorModuleName == "blockchain_agglomerator"
ModuleNames == {AgglomeratorModuleName, "metrics"}

\* NewAgglomeratorModule, and CreateNewModule for a plain module
NewModule ==
    [baseState |-> StateUninitialized, state |-> StateUninitialized,
     moduleState |-> StateUninitialized, agglomerator |-> FALSE]

\* NewModuleRegistry
NewModuleRegistry == [modules |-> {}, deps |-> EmptyMap]

\* the modules as built, none registered
ModuleIdle ==
    /\ modules = [name \in ModuleNames |-> NewModule]
    /\ moduleRegistry = NewModuleRegistry

\* everything but the node's routing vector and peer table
InitBase ==
    /\ chains = NewAgglomerator.chains
    /\ vectorIndex = NewAgglomerator.vectorIndex
    /\ lastReg = EmptyMap
    /\ txIds = [passed |-> {}, again |-> {}]
    /\ db = NewInfiniteVectorIndex
    /\ lastIns = EmptyMap
    /\ call = NoCall
    /\ VecIdle
    /\ NodeIdle
    /\ ModuleIdle

Init == InitBase /\ routingVector = RoutingA /\ peers = EmptyMap

AggNext == RegisterChain \/ ProcessTransaction \/ ListChains \/ GetChain

\* the agglomerator under any sequence of calls
SpecAgg == Init /\ [][AggNext]_vars

----------------------------------------------------------------------------
(* The stand-alone index under any sequence of calls *)

RecIds == {"r1", "r2", "r3"}
Metadatas == {[category |-> "science"], [category |-> "technology"]}
SpaceNames == {"exponential"}
\* similarity thresholds in tenths: 0, 0.5 and 1.0
IdxThresholds == {0, 5, 10}
\* the dimensions the QueryByDimension predicates look at
SelectorDims == {0, 1, 4}

RecordArgs ==
    [ID : RecIds, Metadata : Metadatas,
     Vector : {NewVector(g) : g \in CallerGenerators}]

IdxReady == call.n < MaxIdxCalls /\ call.err # Panicked

DefineVectorSpace ==
    /\ IdxReady
    /\ \E spaceName \in SpaceNames, generator \in {GA, GB} :
        /\ db' = IndexDefineVectorSpace(db, spaceName, generator)
        /\ call' = [op |-> "DefineVectorSpace", n |-> call.n + 1, err |-> NoErr]
        /\ UNCHANGED <<lastIns, aggVars, vecVars, modVars, nodeVars>>

Insert ==
    /\ IdxReady
    /\ \E record \in RecordArgs :
        /\ db' = IndexInsert(db, record)
        /\ lastIns' = MapSet(lastIns, record.ID, record)
        /\ call' = [op |-> "Insert", n |-> call.n + 1, record |-> record,
                    changed |->
                        /\ record.ID \in DOMAIN db.vectorSpace
                        /\ StoredRecord(db, record.ID).Metadata # record.Metadata
                        /\ StoredRecord(db, record.ID).Vector # WithFallback(record.Vector),
                    err |-> NoErr]
        /\ UNCHANGED <<aggVars, vecVars, modVars, nodeVars>>

AdvancedQueryCall ==
    /\ IdxReady
    /\ \E order \in Orders(DOMAIN db.vectorSpace) :
       \E similarityThreshold \in IdxThresholds, g \in CallerGenerators,
          maxDimensions \in {0, QueryDims} :
        LET r == AdvancedQuery(db, order, similarityThreshold, NewVector(g), maxDimensions)
        IN
        /\ call' = [op |-> "AdvancedQuery", n |-> call.n + 1,
                    similarityThreshold |-> similarityThreshold,
                    queryVector |-> NewVector(g), maxDimensions |-> maxDimensions,
                    results |-> r.results,
                    err |-> IF r.panic THEN Panicked ELSE NoErr]
        /\ UNCHANGED <<idxVars, aggVars, vecVars, modVars, nodeVars>>

QueryByDimensionCall ==
    /\ IdxReady
    /\ \E order \in Orders(DOMAIN db.vectorSpace) :
       \E k \in SelectorDims, maxResults \in 0 .. MaxResultsArg :
        /\ call' = [op |-> "QueryByDimension", n |-> call.n + 1, k |-> k,
                    maxResults |-> maxResults,
                    results |-> QueryByDimension(db, order, k, maxResults),
                    err |-> NoErr]
        /\ UNCHANGED <<idxVars, aggVars, vecVars, modVars, nodeVars>>

IdxNext == DefineVectorSpace \/ Insert \/ AdvancedQueryCall \/ QueryByDimensionCall

SpecIdx == Init /\ [][IdxNext]_vars

----------------------------------------------------------------------------
(* One InfiniteVector shared by goroutines that call GetElement *)

Procs == 1 .. NumProcs

\* the generator of the shared vector
VecGenerator == Fallback

Max(a, b) == IF a >= b THEN a ELSE b

\* a faulty GetElement that does not wait for the lock
MuFree_Always == TRUE

\* v.mu.Lock() can return
MuFree == mu = 0

\* a goroutine calls GetElement(d)
GetElementCall(p) ==
    /\ pc[p] = "idle"
    /\ \E d \in 0 .. MaxDim :
        /\ dimension' = [dimension EXCEPT ![p] = d]
        /\ pc' = [pc EXCEPT ![p] = "lock"]
    /\ UNCHANGED <<elements, mu, val, lenAtLock, genCalls, call, aggVars, idxVars, nodeVars, modVars>>

\* v.mu.Lock()
GetElementLock(p) ==
    /\ pc[p] = "lock"
    /\ MuFree
    /\ mu' = p
    /\ lenAtLock' = [lenAtLock EXCEPT ![p] = Len(elements)]
    /\ pc' = [pc EXCEPT ![p] = "loop"]
    /\ UNCHANGED <<elements, dimension, val, genCalls, call, aggVars, idxVars, nodeVars, modVars>>

\* the loop condition holds: v.Generator(len(v.elements)) is evaluated
GetElementGenerate(p) ==
    /\ pc[p] = "loop"
    /\ Len(elements) <= dimension[p]
    /\ val' = [val EXCEPT ![p] = Gen(VecGenerator, Len(elements))]
    /\ genCalls' = Append(genCalls, Len(elements))
    /\ pc' = [pc EXCEPT ![p] = "append"]
    /\ UNCHANGED <<elements, mu, dimension, lenAtLock, call, aggVars, idxVars, nodeVars, modVars>>

\* v.elements = append(v.elements, <the value>)
GetElementAppend(p) ==
    /\ pc[p] = "append"
    /\ elements' = Append(elements, val[p])
    /\ pc' = [pc EXCEPT ![p] = "loop"]
    /\ UNCHANGED <<mu, dimension, val, lenAtLock, genCalls, call, aggVars, idxVars, nodeVars, modVars>>

\* the loop is over: return v.elements[dimension], then the deferred Unlock
GetElementReturn(p) ==
    /\ pc[p] = "loop"
    /\ Len(elements) > dimension[p]
    /\ call' = [op |-> "GetElement", n |-> 0, err |-> NoErr, p |-> p,
                dimension |-> dimension[p], value |-> elements[dimension[p] + 1],
                lenBefore |-> lenAtLock[p], lenAfter |-> Len(elements)]
    /\ mu' = 0
    /\ pc' = [pc EXCEPT ![p] = "idle"]
    /\ UNCHANGED <<elements, dimension, val, lenAtLock, genCalls, aggVars, idxVars, nodeVars, modVars>>

VecNext ==
    \E p \in Procs :
        \/ GetElementCall(p)
        \/ GetElementLock(p)
        \/ GetElementGenerate(p)
        \/ GetElementAppend(p)
        \/ GetElementReturn(p)

SpecVec == Init /\ [][VecNext]_vars

----------------------------------------------------------------------------
(* The route scorer and the module's chain set-up under any inputs *)

\* the sequences over S of length at most n
SeqsUpTo(S, n) == UNION {[1 .. k -> S] : k \in 0 .. n}

\* candidate chains as findP2POptimalRoute builds them from query results: id,
\* protocol and endpoint of a record's metadata and the record's vector, which
\* carries a generator since Insert stored it.  Every id names its protocol.
RouteIds == {"eth", "ethereum", "eth-1", "btc", "btc-1"}
ProtocolNamedBy(id) == IF id \in {"btc", "btc-1"} THEN "btc" ELSE "eth"
RouteChains ==
    {[ID |-> id, Endpoint |-> e, Protocol |-> ProtocolNamedBy(id),
      StateVector |-> NewVector(g)] : id \in RouteIds, e \in Endpoints, g \in {GA, GB}}
RouteTxArgs ==
    [ID : {"tx1"}, FromChain : {"eth-1"}, ToChain : {"btc-1"},
     StateVector : {NewVector(g) : g \in {GA, GB}}, Similarity : {5}]

\* the entries of EnabledChains in the module's configuration
ChainConfigs == [ID : {"eth", "eth-1"}, Protocol : {"eth", "ethereum"}, Endpoint : Endpoints]

\* one operation per run: neither depends on what ran before
RouteReady == call.op = "none"

FindOptimalRoute ==
    /\ RouteReady
    /\ \E candidates \in SeqsUpTo(RouteChains, MaxCandidates), tx \in RouteTxArgs :
        /\ call' = [op |-> "findOptimalRoute", n |-> 0, chains |-> candidates, tx |-> tx,
                    route |-> findOptimalRoute(candidates, tx), err |-> NoErr]
        /\ UNCHANGED <<aggVars, idxVars, vecVars, modVars, nodeVars>>

\* the part of AgglomeratorModule.Initialize that builds the agglomerator and
\* registers the configured chains
Initialize ==
    /\ RouteReady
    /\ \E enabledChains \in SeqsUpTo(ChainConfigs, MaxCandidates) :
        LET a == InitializeChains(NewAgglomerator, enabledChains) IN
        /\ chains' = a.chains
        /\ vectorIndex' = a.vectorIndex
        /\ call' = [op |-> "Initialize", n |-> 0, enabledChains |-> enabledChains,
                    err |-> NoErr]
        /\ UNCHANGED <<lastReg, txIds, idxVars, vecVars, modVars, nodeVars>>

RouteNext == FindOptimalRoute \/ Initialize

SpecRoute == Init /\ [][RouteNext]_vars

----------------------------------------------------------------------------
(* ComputeVectorSimilarity under any pair of vectors with integer elements *)

\* the values a generator of these vectors yields
SimElements == {-2, 0, 3}

\* vectors whose first MaxSimLen elements have been generated and cached
CachedVectors ==
    {[Generator |-> Fallback, elements |-> e] : e \in [1 .. MaxSimLen -> SimElements]}

\* one call per run: the function has no state
ComputeSimilarity ==
    /\ call.op = "none"
    /\ \E v1 \in CachedVectors, v2 \in CachedVectors, dimensions \in 0 .. MaxSimLen :
        LET sim == ComputeVectorSimilarity(v1, v2, dimensions) IN
        /\ call' = [op |-> "ComputeVectorSimilarity", n |-> 0, v1 |-> v1, v2 |-> v2,
                    dimensions |-> dimensions, sim |-> sim,
                    result |-> SimilarityValue(sim), err |-> NoErr]
        /\ UNCHANGED <<aggVars, idxVars, vecVars, modVars, nodeVars>>

SpecSim == Init /\ [][ComputeSimilarity]_vars

----------------------------------------------------------------------------
(* float64.  A finite float64 is (-1)^neg * mant * 2^exp with mant below 2^53.  *)
(* The model keeps mant as a natural number of any size, written as a sequence   *)
(* of limbs, lowest first and without leading zero limbs, and rounds a sum or a  *)
(* product to 53 bits, ties to even, as the hardware does.  mant is odd unless   *)
(* the number is zero, so equal numbers are equal records.  The exponents of the *)
(* numbers met here are far from the ends of the float64 range; the sign of a    *)
(* zero decides nothing and is dropped.                                          *)

\* the bits of a float64 significand
MantissaBits == 53
\* the bits of a limb, and its modulus
LimbBits == 15
Limb == 2 ^ LimbBits

RECURSIVE NatLimbs(_)
\* the natural number k in limbs
NatLimbs(k) == IF k = 0 THEN <<>> ELSE <<k % Limb>> \o NatLimbs(k \div Limb)

RECURSIVE TrimLimbs(_)
\* a without its leading zero limbs
TrimLimbs(a) ==
    IF a # <<>> /\ a[Len(a)] = 0 THEN TrimLimbs(SubSeq(a, 1, Len(a) - 1)) ELSE a

LimbAt(a, i) == IF i >= 1 /\ i <= Len(a) THEN a[i] ELSE 0

RECURSIVE AddLimbsFrom(_, _, _, _)
AddLimbsFrom(a, b, i, carry) ==
    IF i > Len(a) /\ i > Len(b)
    THEN IF carry = 0 THEN <<>> ELSE <<carry>>
    ELSE LET s == LimbAt(a, i) + LimbAt(b, i) + carry
         IN  <<s % Limb>> \o AddLimbsFrom(a, b, i + 1, s \div Limb)

\* a + b
AddLimbs(a, b) == AddLimbsFrom(a, b, 1, 0)

RECURSIVE SubLimbsFrom(_, _, _, _)
SubLimbsFrom(a, b, i, borrow) ==
    IF i > Len(a) THEN <<>>
    ELSE LET d == LimbAt(a, i) - LimbAt(b, i) - borrow
         IN  <<(d + Limb) % Limb>> \o SubLimbsFrom(a, b, i + 1, IF d < 0 THEN 1 ELSE 0)

\* a - b for a >= b
SubLimbs(a, b) == TrimLimbs(SubLimbsFrom(a, b, 1, 0))

RECURSIVE CompareLimbsFrom(_, _, _)
CompareLimbsFrom(a, b, i) ==
    IF i = 0 THEN 0
    ELSE IF a[i] # b[i] THEN (IF a[i] < b[i] THEN -1 ELSE 1)
    ELSE CompareLimbsFrom(a, b, i - 1)

\* -1, 0 or 1 as a is below, equal to or above b
CompareLimbs(a, b) ==
    IF Len(a) # Len(b) THEN (IF Len(a) < Len(b) THEN -1 ELSE 1)
    ELSE CompareLimbsFrom(a, b, Len(a))

RECURSIVE MulByLimbFrom(_, _, _, _)
MulByLimbFrom(a, d, i, carry) ==
    IF i > Len(a)
    THEN IF carry = 0 THEN <<>> ELSE <<carry>>
    ELSE LET p == a[i] * d + carry
         IN  <<p % Limb>> \o MulByLimbFrom(a, d, i + 1, p \div Limb)

RECURSIVE MulLimbsFrom(_, _, _)
MulLimbsFrom(a, b, j) ==
    IF j > Len(b) THEN <<>>
    ELSE AddLimbs(MulByLimbFrom(a, b[j], 1, 0), <<0>> \o MulLimbsFrom(a, b, j + 1))

\* a * b
MulLimbs(a, b) == TrimLimbs(MulLimbsFrom(a, b, 1))

RECURSIVE DivLimbsFrom(_, _, _, _)
DivLimbsFrom(a, d, i, rem) ==
    IF i = 0 THEN [quot |-> <<>>, rem |-> rem]
    ELSE LET cur == rem * Limb + a[i]
             low == DivLimbsFrom(a, d, i - 1, cur % d)
         IN  [quot |-> low.quot \o <<cur \div d>>, rem |-> low.rem]

\* quotient and remainder of a by the small number d
DivLimbs(a, d) ==
    LET r == DivLimbsFrom(a, d, Len(a), 0) IN [quot |-> TrimLimbs(r.quot), rem |-> r.rem]

RECURSIVE SmallBitLen(_)
SmallBitLen(k) == IF k = 0 THEN 0 ELSE 1 + SmallBitLen(k \div 2)

\* the number of bits of a
BitLen(a) == IF a = <<>> THEN 0 ELSE LimbBits * (Len(a) - 1) + SmallBitLen(a[Len(a)])

\* bit i of a, bit 0 the lowest
Bit(a, i) == (LimbAt(a, i \div LimbBits + 1) \div 2 ^ (i % LimbBits)) % 2

\* a * 2^k
ShiftLeft(a, k) ==
    IF a = <<>> THEN <<>>
    ELSE [i \in 1 .. k \div LimbBits |-> 0] \o MulByLimbFrom(a, 2 ^ (k % LimbBits), 1, 0)

\* a \div 2^k
ShiftRight(a, k) ==
    LET q == k \div LimbBits
        r == k % LimbBits
    IN  TrimLimbs([i \in 1 .. Len(a) - q |->
                      (LimbAt(a, i + q) \div 2 ^ r)
                          + (LimbAt(a, i + q + 1) % 2 ^ r) * 2 ^ (LimbBits - r)])

RECURSIVE TrailingZerosFrom(_, _)
TrailingZerosFrom(a, i) == IF Bit(a, i) = 1 THEN i ELSE TrailingZerosFrom(a, i + 1)

\* the record of (-1)^neg * m * 2^e with an odd significand
Canonical(neg, m, e) ==
    IF m = <<>> THEN [neg |-> FALSE, mant |-> <<>>, exp |-> 0]
    ELSE LET z == TrailingZerosFrom(m, 0)
         IN  [neg |-> neg, mant |-> ShiftRight(m, z), exp |-> e + z]

\* the float64 nearest to x, ties to the even significand
RoundToFloat64(x) ==
    LET k == BitLen(x.mant) - MantissaBits IN
    IF k <= 0 THEN Canonical(x.neg, x.mant, x.exp)
    ELSE LET q == ShiftRight(x.mant, k)
             up == /\ Bit(x.mant, k - 1) = 1
                   /\ \/ Bit(x.mant, k) = 1
                      \/ \E i \in 0 .. k - 2 : Bit(x.mant, i) = 1
         IN  Canonical(x.neg, IF up THEN AddLimbs(q, <<1>>) ELSE q, x.exp + k)

\* x * y and x + y before rounding
ExactMul(x, y) ==
    [neg |-> x.neg # y.neg, mant |-> MulLimbs(x.mant, y.mant), exp |-> x.exp + y.exp]
ExactAdd(x, y) ==
    LET e == IF x.exp <= y.exp THEN x.exp ELSE y.exp
        a == ShiftLeft(x.mant, x.exp - e)
        b == ShiftLeft(y.mant, y.exp - e)
    IN  IF x.neg = y.neg THEN [neg |-> x.neg, mant |-> AddLimbs(a, b), exp |-> e]
        ELSE IF CompareLimbs(a, b) >= 0
             THEN [neg |-> x.neg, mant |-> SubLimbs(a, b), exp |-> e]
             ELSE [neg |-> y.neg, mant |-> SubLimbs(b, a), exp |-> e]

Negated(x) == [x EXCEPT !.neg = ~x.neg]

\* the float64 operators *, + and -
FMul(x, y) == RoundToFloat64(ExactMul(x, y))
FAdd(x, y) == RoundToFloat64(ExactAdd(x, y))
FSub(x, y) == RoundToFloat64(ExactAdd(x, Negated(y)))

\* z + x * y and z - x * y as one fused instruction rounds them
FusedMulAdd(x, y, z) == RoundToFloat64(ExactAdd(ExactMul(x, y), z))
FusedMulSub(x, y, z) == RoundToFloat64(ExactAdd(Negated(ExactMul(x, y)), z))

\* float64(k) for an integer k
FromInt(k) == Canonical(k < 0, NatLimbs(IF k < 0 THEN -k ELSE k), 0)

\* the float64 of the decimal k / 10, k > 0: the quotient of k * 2^64 by 10, its
\* remainder kept as one more low bit, rounded
FromTenths(k) ==
    LET d == DivLimbs(ShiftLeft(NatLimbs(k), 64), 10)
        m == AddLimbs(ShiftLeft(d.quot, 1), IF d.rem = 0 THEN <<>> ELSE <<1>>)
    IN  RoundToFloat64([neg |-> FALSE, mant |-> m, exp |-> -65])

IsZero(x) == x.mant = <<>>

----------------------------------------------------------------------------
(* ComputeVectorSimilarity in float64, one loop iteration per step *)

\* generators that yield the same decimal for every dimension
Tenth == "0.1"
ThreeTenths == "0.3"
Half == "0.5"
Five == "5.0"
ConstantGenerators == {Tenth, ThreeTenths, Half, Five}

\* the float64 a generator yields for dimension d
Gen64(g, d) ==
    CASE g = Tenth -> FromTenths(1)
      [] g = ThreeTenths -> FromTenths(3)
      [] g = Half -> FromTenths(5)
      [] g = Five -> FromInt(5)
      [] OTHER -> FromInt(Gen(g, d))

\* the vectors compared: constant ones and two that alternate
Float64Vectors == {NewVector(g) : g \in ConstantGenerators \cup {GA, GB}}

\* how the compiler treats x*y + z: amd64 rounds the product and the sum
\* separately, arm64 and others fuse them into one rounding
Builds == {"separate", "fused"}

\* sum += x * y
Accumulate(build, sum, x, y) ==
    IF build = "fused" THEN FusedMulAdd(x, y, sum) ELSE FAdd(sum, FMul(x, y))

\* n*a - b*c
Covariance(build, n, a, b, c) ==
    IF build = "fused" THEN FusedMulSub(b, c, FMul(n, a)) ELSE FSub(FMul(n, a), FMul(b, c))

\* what the function returns for a numerator and the product under the root:
\* math.Sqrt of a negative number is NaN, NaN == 0 is false and numerator / NaN
\* is NaN
Returned(numerator, product) ==
    IF IsZero(product) THEN "0"
    ELSE IF product.neg THEN "NaN"
    ELSE IF IsZero(numerator) THEN "0" ELSE "nonzero"

SimilarityCall ==
    /\ call.op = "none"
    /\ \E v1 \in Float64Vectors, v2 \in Float64Vectors, dimensions \in 0 .. MaxFloatDims,
          build \in Builds :
        call' = [op |-> "ComputeVectorSimilarity", n |-> 0, v1 |-> v1, v2 |-> v2,
                 dimensions |-> dimensions, build |-> build, i |-> 0,
                 sumXY |-> FromInt(0), sumX |-> FromInt(0), sumY |-> FromInt(0),
                 sumX2 |-> FromInt(0), sumY2 |-> FromInt(0),
                 result |-> "pending", err |-> NoErr]
    /\ UNCHANGED <<aggVars, idxVars, vecVars, modVars, nodeVars>>

SimilarityLoop ==
    /\ call.op = "ComputeVectorSimilarity"
    /\ call.result = "pending"
    /\ call.i < call.dimensions
    /\ LET x == Gen64(call.v1.Generator, call.i)
           y == Gen64(call.v2.Generator, call.i)
       IN  call' = [call EXCEPT !.i = @ + 1,
                                !.sumXY = Accumulate(call.build, @, x, y),
                                !.sumX = FAdd(@, x),
                                !.sumY = FAdd(@, y),
                                !.sumX2 = Accumulate(call.build, @, x, x),
                                !.sumY2 = Accumulate(call.build, @, y, y)]
    /\ UNCHANGED <<aggVars, idxVars, vecVars, modVars, nodeVars>>

SimilarityReturn ==
    /\ call.op = "ComputeVectorSimilarity"
    /\ call.result = "pending"
    /\ call.i = call.dimensions
    /\ LET n == FromInt(call.dimensions)
           numerator == Covariance(call.build, n, call.sumXY, call.sumX, call.sumY)
           product == FMul(Covariance(call.build, n, call.sumX2, call.sumX, call.sumX),
                           Covariance(call.build, n, call.sumY2, call.sumY, call.sumY))
       IN  call' = [call EXCEPT !.result = Returned(numerator, product)]
    /\ UNCHANGED <<aggVars, idxVars, vecVars, modVars, nodeVars>>

Float64Next == SimilarityCall \/ SimilarityLoop \/ SimilarityReturn

SpecFloat64 == Init /\ [][Float64Next]_vars

----------------------------------------------------------------------------
(* AdaptiveCompressor.  Singular values are small integers and energyThreshold  *)
(* is counted in hundredths, so the energies and their ratio are compared       *)
(* exactly.  Of the columns of U and V a block keeps here only their lengths.   *)

\* NewAdaptiveCompressor(config)
NewAdaptiveCompressor(config) ==
    [maxRank |-> config.MaxRank, energyThreshold |-> config.EnergyThreshold,
     forceMaxRank |-> config.ForceMaxRank]

RECURSIVE SumOfSquares(_, _)
\* the sum of the squares of the first k values
SumOfSquares(values, k) ==
    IF k = 0 THEN 0 ELSE SumOfSquares(values, k - 1) + values[k] * values[k]

RECURSIVE EnergyLoop_Strict(_, _, _, _, _)
\* a faulty loop that breaks only when the energy kept exceeds the threshold
EnergyLoop_Strict(ac, singularValues, totalEnergy, i, currentEnergy) ==
    LET energy == currentEnergy + singularValues[i] * singularValues[i] IN
    IF \/ 100 * energy > ac.energyThreshold * totalEnergy
       \/ i >= ac.maxRank
       \/ i = Len(singularValues)
    THEN [rank |-> i, currentEnergy |-> energy]
    ELSE EnergyLoop_Strict(ac, singularValues, totalEnergy, i + 1, energy)

RECURSIVE EnergyLoop(_, _, _, _, _)
\* the loop of DetermineOptimalRank from the i-th value on: rank and energy when
\* it breaks or runs out of values
EnergyLoop(ac, singularValues, totalEnergy, i, currentEnergy) ==
    LET energy == currentEnergy + singularValues[i] * singularValues[i] IN
    IF \/ 100 * energy >= ac.energyThreshold * totalEnergy
       \/ i >= ac.maxRank
       \/ i = Len(singularValues)
    THEN [rank |-> i, currentEnergy |-> energy]
    ELSE EnergyLoop(ac, singularValues, totalEnergy, i + 1, energy)

DetermineOptimalRank(ac, singularValues) ==
    IF Len(singularValues) = 0 THEN 0
    ELSE LET totalEnergy == SumOfSquares(singularValues, Len(singularValues)) IN
         IF totalEnergy = 0 THEN 0
         ELSE LET rank == EnergyLoop(ac, singularValues, totalEnergy, 1, 0).rank
                  capped == IF rank > ac.maxRank THEN ac.maxRank ELSE rank
              IN  IF capped > Len(singularValues) THEN Len(singularValues) ELSE capped

calculateStorageSize(rank, rows, cols) == (rank * (rows + cols + 1)) * 8

RECURSIVE FittingRank(_, _, _, _)
\* the loop of calculateOptimalRank from `rank` down, 1 when no rank fits
FittingRank(rank, rows, cols, targetSize) ==
    IF rank <= 0 THEN 1
    ELSE IF calculateStorageSize(rank, rows, cols) <= targetSize THEN rank
    ELSE FittingRank(rank - 1, rows, cols, targetSize)

calculateOptimalRank(ac, singularValues, rows, cols, targetSize) ==
    LET rank == DetermineOptimalRank(ac, singularValues)
        baseRank == IF rank > ac.maxRank THEN ac.maxRank ELSE rank
    IN  IF calculateStorageSize(baseRank, rows, cols) <= targetSize THEN baseRank
        ELSE FittingRank(baseRank, rows, cols, targetSize)

RECURSIVE LimbsToInt(_)
LimbsToInt(a) == IF a = <<>> THEN 0 ELSE Head(a) + Limb * LimbsToInt(Tail(a))

\* int(x) for a float64 x >= 0 below 2^31
TruncToInt(x) ==
    LimbsToInt(IF x.exp >= 0 THEN ShiftLeft(x.mant, x.exp) ELSE ShiftRight(x.mant, -x.exp))

\* the matrix shape CompressBlock chooses for `size` values
BlockRows(size) == Sqrt(size)
BlockCols(size) ==
    LET rows == BlockRows(size) IN
    IF size % rows # 0 THEN size \div rows + 1 ELSE size \div rows

NoBlock == [nil |-> TRUE]
ErrEmptyBlock == "empty block data"
ErrEmptyComponents == "compressed block has empty components"
ErrInconsistent == "inconsistent dimensions"
ErrNilBlock == "compressed block is nil"

\* the first `rank` components of the factorisation
TopComponents(rank, singularValues, rows, cols, size) ==
    [U |-> [i \in 1 .. rank |-> rows], V |-> [i \in 1 .. rank |-> cols],
     S |-> SubSeq(singularValues, 1, rank),
     OriginalRows |-> rows, OriginalCols |-> cols, OriginalSize |-> size]

\* the rank CompressBlock keeps
ChosenRank(ac, singularValues, rows, cols, size) ==
    IF ac.forceMaxRank
    THEN IF ac.maxRank > Len(singularValues) THEN Len(singularValues) ELSE ac.maxRank
    ELSE LET rank == calculateOptimalRank(ac, singularValues, rows, cols,
                         TruncToInt(FMul(FromInt(size), FromTenths(7))))
         IN  IF rank > ac.maxRank THEN ac.maxRank ELSE rank

\* CompressBlock(blockData) when the factorisation yields singularValues
CompressBlock(ac, blockData, singularValues) ==
    IF Len(blockData) = 0 THEN [block |-> NoBlock, err |-> ErrEmptyBlock]
    ELSE LET size == Len(blockData)
             rows == BlockRows(size)
             cols == BlockCols(size)
         IN  [block |-> TopComponents(ChosenRank(ac, singularValues, rows, cols, size),
                                      singularValues, rows, cols, size),
              err |-> NoErr]

validateCompressedBlock(cb) ==
    IF cb = NoBlock THEN ErrNilBlock
    ELSE IF Len(cb.U) = 0 \/ Len(cb.V) = 0 \/ Len(cb.S) = 0 THEN ErrEmptyComponents
    ELSE IF Len(cb.U) # Len(cb.V) \/ Len(cb.U) # Len(cb.S) THEN ErrInconsistent
    ELSE NoErr

\* Decompress: the number of values it returns, and its error
Decompress(cb) ==
    LET err == validateCompressedBlock(cb) IN
    IF err # NoErr THEN [len |-> 0, err |-> err]
    ELSE LET full == cb.OriginalRows * cb.OriginalCols
         IN  [len |-> IF full > cb.OriginalSize THEN cb.OriginalSize ELSE full,
              err |-> NoErr]

\* the configurations: the zero CompressorConfig{} of the streaming compressor,
\* and ranks and thresholds as callers set them
CompressorConfigs ==
    [MaxRank : {0, 1, 2, 10}, EnergyThreshold : {0, 90, 95}, ForceMaxRank : BOOLEAN]

\* singular values as DetermineOptimalRank may be handed them
SingularLevels == 0 .. 3
ValueLists == UNION {[1 .. k -> SingularLevels] : k \in 0 .. MaxValues}

\* blocks of zeros and ones up to MaxBlockLen values, and one large block
SmallBlocks == UNION {[1 .. k -> {0, 1}] : k \in 0 .. MaxBlockLen}
LargeBlock == [i \in 1 .. LargeBlockLen |-> i % 2]
Blocks == SmallBlocks \cup {LargeBlock}

\* what the factorisation of the block as a rows x cols matrix may yield: the
\* singular values are not computed here, any non-increasing list of min(rows,
\* cols) values of which at most MaxValues are not zero stands for them, all
\* zero exactly when the block is
SingularValuesOf(blockData) ==
    IF Len(blockData) = 0 THEN {<<>>}
    ELSE LET n == Min(BlockRows(Len(blockData)), BlockCols(Len(blockData)))
             descending == {[i \in 1 .. n |-> IF i <= a THEN 3 ELSE IF i <= b THEN 1 ELSE 0] :
                               <<a, b>> \in {p \in (0 .. Min(n, MaxValues)) \X (0 .. Min(n, MaxValues)) :
                                                p[1] <= p[2]}}
         IN  {s \in descending : (\A i \in 1 .. n : s[i] = 0)
                                     = (\A j \in DOMAIN blockData : blockData[j] = 0)}

CompressorReady == call.op = "none"

DetermineOptimalRankCall ==
    /\ CompressorReady
    /\ \E config \in CompressorConfigs, singularValues \in ValueLists :
        call' = [op |-> "DetermineOptimalRank", n |-> 0,
                 ac |-> NewAdaptiveCompressor(config), singularValues |-> singularValues,
                 rank |-> DetermineOptimalRank(NewAdaptiveCompressor(config), singularValues),
                 err |-> NoErr]
    /\ UNCHANGED <<aggVars, idxVars, vecVars, modVars, nodeVars>>

CompressBlockCall ==
    /\ CompressorReady
    /\ \E config \in CompressorConfigs, blockData \in Blocks :
        \E singularValues \in SingularValuesOf(blockData) :
            LET r == CompressBlock(NewAdaptiveCompressor(config), blockData, singularValues)
            IN  call' = [op |-> "CompressBlock", n |-> 0,
                         ac |-> NewAdaptiveCompressor(config), blockData |-> blockData,
                         singularValues |-> singularValues,
                         block |-> r.block, err |-> r.err]
    /\ UNCHANGED <<aggVars, idxVars, vecVars, modVars, nodeVars>>

\* Decompress of the block the last CompressBlock returned
DecompressCall ==
    /\ call.op = "CompressBlock"
    /\ call.err = NoErr
    /\ LET r == Decompress(call.block)
       IN  call' = [call EXCEPT !.op = "Decompress", !.err = r.err] @@ [len |-> r.len]
    /\ UNCHANGED <<aggVars, idxVars, vecVars, modVars, nodeVars>>

CompressorNext == DetermineOptimalRankCall \/ CompressBlockCall \/ DecompressCall

SpecCompress == Init /\ [][CompressorNext]_vars

----------------------------------------------------------------------------
(* The agglomerator under concurrent calls.  Agglomerator.mu is an RWMutex:      *)
(* RegisterChain holds it exclusively, the other operations share it.  Who holds *)
(* it follows from the positions of the goroutines.  A goroutine that waits for  *)
(* the mutex does not keep readers out: the program's RWMutex lets readers pass  *)
(* until the writer has announced itself, and may do so at any time after.  An   *)
(* Insert or AdvancedQuery of an index runs under the index's own mutex and is   *)
(* one step.                                                                     *)

\* the positions inside RegisterChain, and inside the operations that share a.mu
WriterPositions == {"register", "registerInsert"}
TxPositions == {"query", "insert", "poolFrom", "poolTo"}
ReaderPositions == TxPositions \cup {"list", "get"}

\* a.mu.Lock() returns: nobody holds the mutex
Lockable == \A d \in Clients : ppc[d] \notin WriterPositions \cup ReaderPositions

\* a faulty shared lock that a writer does not keep out
RLockable_Always == TRUE

\* a.mu.RLock() returns: no writer holds the mutex
RLockable == \A d \in Clients : ppc[d] \notin WriterPositions

\* a chain object before RegisterChain has given it a pool
NoPool == [nil |-> TRUE]

ConcChainArgs ==
    {chain \in ChainArgs : chain.StateVector.Generator = GA
                           /\ chain.Protocol = ProtocolNamedBy(chain.ID)}
ConcTxIds == {"tx1", "tx2"}
ConcTxArgs ==
    [ID : ConcTxIds, FromChain : ChainIds, ToChain : ChainIds,
     StateVector : {NewVector(GA)}, Similarity : {5}]

ConcReady(c) == ppc[c] = "idle" /\ started < MaxAggOps

ConcUnchanged == UNCHANGED <<lastReg, idxVars, vecVars, modVars, peers, routingVector, dataChannel,
                             records, indexSpace, emitted, received>>

\* a goroutine calls RegisterChain(chain) and comes to a.mu.Lock()
RegisterChainCall(c) ==
    /\ ConcReady(c)
    /\ \E chain \in ConcChainArgs :
        job' = [job EXCEPT ![c] = [op |-> "RegisterChain", chain |-> WithPool(chain, NoPool)]]
    /\ ppc' = [ppc EXCEPT ![c] = "lockWait"]
    /\ started' = started + 1
    /\ UNCHANGED <<chains, vectorIndex, call>>
    /\ UNCHANGED txIds
    /\ ConcUnchanged

\* the exclusive lock, and chain.TransactionPool = NewInfiniteVectorIndex()
RegisterChainLock(c) ==
    /\ ppc[c] = "lockWait"
    /\ Lockable
    /\ job' = [job EXCEPT ![c].chain.TransactionPool = NewInfiniteVectorIndex]
    /\ ppc' = [ppc EXCEPT ![c] = "register"]
    /\ UNCHANGED <<chains, vectorIndex, call, started>>
    /\ UNCHANGED txIds
    /\ ConcUnchanged

\* a.chains[chain.ID] = chain
RegisterChainStore(c) ==
    /\ ppc[c] = "register"
    /\ chains' = MapSet(chains, job[c].chain.ID, job[c].chain)
    /\ ppc' = [ppc EXCEPT ![c] = "registerInsert"]
    /\ UNCHANGED <<vectorIndex, call, job, started>>
    /\ UNCHANGED txIds
    /\ ConcUnchanged

\* return a.vectorIndex.Insert(record), and the unlock
RegisterChainInsert(c) ==
    /\ ppc[c] = "registerInsert"
    /\ vectorIndex' = IndexInsert(vectorIndex, ChainRecord(job[c].chain))
    /\ ppc' = [ppc EXCEPT ![c] = "idle"]
    /\ job' = [job EXCEPT ![c] = NoJob]
    /\ call' = [op |-> "RegisterChain", n |-> 0, client |-> c,
                chain |-> job[c].chain, err |-> NoErr]
    /\ UNCHANGED <<chains, started>>
    /\ UNCHANGED txIds
    /\ ConcUnchanged

\* a goroutine calls one of the operations that share the lock and comes to
\* a.mu.RLock().  `overlapped` will record that another ProcessTransaction was
\* inside its section at some time during this one.
ProcessTransactionCall(c) ==
    /\ ConcReady(c)
    /\ \E tx \in ConcTxArgs :
        /\ job' = [job EXCEPT ![c] = [op |-> "ProcessTransaction", tx |-> tx,
                                      err |-> NoErr, overlapped |-> FALSE]]
        /\ txIds' = [passed |-> txIds.passed \cup {tx.ID},
                     again |-> txIds.again \cup ({tx.ID} \cap txIds.passed)]
    /\ ppc' = [ppc EXCEPT ![c] = "rlockWait"]
    /\ started' = started + 1
    /\ UNCHANGED <<chains, vectorIndex, call>>
    /\ ConcUnchanged

ListChainsCall(c) ==
    /\ ConcReady(c)
    /\ job' = [job EXCEPT ![c] = [op |-> "ListChains"]]
    /\ ppc' = [ppc EXCEPT ![c] = "rlockWait"]
    /\ started' = started + 1
    /\ UNCHANGED <<chains, vectorIndex, call>>
    /\ UNCHANGED txIds
    /\ ConcUnchanged

GetChainCall(c) ==
    /\ ConcReady(c)
    /\ \E id \in ChainIds : job' = [job EXCEPT ![c] = [op |-> "GetChain", id |-> id]]
    /\ ppc' = [ppc EXCEPT ![c] = "rlockWait"]
    /\ started' = started + 1
    /\ UNCHANGED <<chains, vectorIndex, call>>
    /\ UNCHANGED txIds
    /\ ConcUnchanged

\* the shared lock of ProcessTransaction
ProcessTransactionRLock(c) ==
    /\ ppc[c] = "rlockWait"
    /\ job[c].op = "ProcessTransaction"
    /\ RLockable
    /\ job' = [d \in Clients |->
                  IF d = c
                  THEN [job[c] EXCEPT !.overlapped = \E e \in Clients : ppc[e] \in TxPositions]
                  ELSE IF ppc[d] \in TxPositions
                       THEN [job[d] EXCEPT !.overlapped = TRUE]
                       ELSE job[d]]
    /\ ppc' = [ppc EXCEPT ![c] = "query"]
    /\ UNCHANGED <<chains, vectorIndex, call, started>>
    /\ UNCHANGED txIds
    /\ ConcUnchanged

\* the shared lock of ListChains and of GetChain
ListChainsRLock(c) ==
    /\ ppc[c] = "rlockWait"
    /\ job[c].op = "ListChains"
    /\ RLockable
    /\ ppc' = [ppc EXCEPT ![c] = "list"]
    /\ UNCHANGED <<chains, vectorIndex, call, job, started>>
    /\ UNCHANGED txIds
    /\ ConcUnchanged

GetChainRLock(c) ==
    /\ ppc[c] = "rlockWait"
    /\ job[c].op = "GetChain"
    /\ RLockable
    /\ ppc' = [ppc EXCEPT ![c] = "get"]
    /\ UNCHANGED <<chains, vectorIndex, call, job, started>>
    /\ UNCHANGED txIds
    /\ ConcUnchanged

\* the operation of goroutine c returns err
TxReturns(c, err) ==
    /\ ppc' = [ppc EXCEPT ![c] = "idle"]
    /\ job' = [job EXCEPT ![c].err = err]
    /\ call' = [op |-> "ProcessTransaction", n |-> 0, client |-> c, tx |-> job[c].tx,
                err |-> err]

\* the AdvancedQuery, of which only the number of results is used
ProcessTransactionQuery(c) ==
    /\ ppc[c] = "query"
    /\ \E order \in Orders(DOMAIN vectorIndex.vectorSpace) :
        LET similarChains == AdvancedQuery(vectorIndex, order, job[c].tx.Similarity,
                                           job[c].tx.StateVector, QueryDims)
        IN  IF Len(similarChains.results) = 0
            THEN TxReturns(c, ErrNoRouteFound)
            ELSE /\ ppc' = [ppc EXCEPT ![c] = "insert"]
                 /\ UNCHANGED <<job, call>>
    /\ UNCHANGED <<chains, vectorIndex, started>>
    /\ UNCHANGED txIds
    /\ ConcUnchanged

\* the Insert into the global index and the two registry lookups
ProcessTransactionInsert(c) ==
    /\ ppc[c] = "insert"
    /\ vectorIndex' = IndexInsert(vectorIndex, TransactionRecord(job[c].tx))
    /\ IF job[c].tx.FromChain \notin DOMAIN chains \/ job[c].tx.ToChain \notin DOMAIN chains
       THEN TxReturns(c, ErrChainNotFound)
       ELSE /\ ppc' = [ppc EXCEPT ![c] = "poolFrom"]
            /\ UNCHANGED <<job, call>>
    /\ UNCHANGED <<chains, started>>
    /\ UNCHANGED txIds
    /\ ConcUnchanged

\* fromChain.TransactionPool.Insert(record)
ProcessTransactionPoolFrom(c) ==
    /\ ppc[c] = "poolFrom"
    /\ chains' = PoolInsert(Agg, job[c].tx.FromChain, TransactionRecord(job[c].tx)).chains
    /\ ppc' = [ppc EXCEPT ![c] = "poolTo"]
    /\ UNCHANGED <<vectorIndex, job, call, started>>
    /\ UNCHANGED txIds
    /\ ConcUnchanged

\* toChain.TransactionPool.Insert(record); return nil
ProcessTransactionPoolTo(c) ==
    /\ ppc[c] = "poolTo"
    /\ chains' = PoolInsert(Agg, job[c].tx.ToChain, TransactionRecord(job[c].tx)).chains
    /\ TxReturns(c, NoErr)
    /\ UNCHANGED <<vectorIndex, started>>
    /\ UNCHANGED txIds
    /\ ConcUnchanged

ListChainsReturn(c) ==
    /\ ppc[c] = "list"
    /\ \E order \in Orders(DOMAIN chains) :
        call' = [op |-> "ListChains", n |-> 0, client |-> c,
                 chains |-> AggListChains(Agg, order), err |-> NoErr]
    /\ ppc' = [ppc EXCEPT ![c] = "idle"]
    /\ job' = [job EXCEPT ![c] = NoJob]
    /\ UNCHANGED <<chains, vectorIndex, started>>
    /\ UNCHANGED txIds
    /\ ConcUnchanged

GetChainReturn(c) ==
    /\ ppc[c] = "get"
    /\ LET r == AggGetChain(Agg, job[c].id)
       IN  call' = [op |-> "GetChain", n |-> 0, client |-> c, id |-> job[c].id,
                    chain |-> r.chain, err |-> r.err]
    /\ ppc' = [ppc EXCEPT ![c] = "idle"]
    /\ job' = [job EXCEPT ![c] = NoJob]
    /\ UNCHANGED <<chains, vectorIndex, started>>
    /\ UNCHANGED txIds
    /\ ConcUnchanged

ConcNext ==
    \E c \in Clients :
        \/ RegisterChainCall(c) \/ RegisterChainLock(c)
        \/ RegisterChainStore(c) \/ RegisterChainInsert(c)
        \/ ProcessTransactionCall(c) \/ ProcessTransactionRLock(c)
        \/ ProcessTransactionQuery(c) \/ ProcessTransactionInsert(c)
        \/ ProcessTransactionPoolFrom(c) \/ ProcessTransactionPoolTo(c)
        \/ ListChainsCall(c) \/ ListChainsRLock(c) \/ ListChainsReturn(c)
        \/ GetChainCall(c) \/ GetChainRLock(c) \/ GetChainReturn(c)

SpecConc == Init /\ [][ConcNext]_vars

----------------------------------------------------------------------------
(* The running P2P node: client goroutines in StoreData and QueryData, the     *)
(* dispatch task (handleDataTransfer) and the discovery task (DiscoverPeers).  *)
(* Nothing sends into discoveryChannel and no peer is ever entered into the    *)
(* reputation table, so the dispatch task's other case never fires and         *)
(* manageReputation changes nothing.  The runs start when discovery has found  *)
(* no peer yet or three of them, and discovery then comes up with one more;    *)
(* the discovery task under every candidate is SpecDisc.                       *)

NodeIDs == {"n1", "n2", "n3", "n4"}

\* the peer table after three cycles of discovery that each connected a peer
ThreePeers ==
    MapSet(MapSet(MapSet(EmptyMap, "n1", PeerInfo("n1", RoutingB[2])),
                  "n2", PeerInfo("n2", RoutingB[1])),
           "n3", PeerInfo("n3", RoutingB[0]))

\* the candidate of the cycles that follow
LateCandidates == {PeerInfo("n4", RoutingB[0])}

\* the record a client stores, each client its own, and the vectors they query with
StoreRecord(c) ==
    DatabaseRecord(IF c = "c1" THEN "r1" ELSE "r2", [category |-> "science"], NewVector(GA))
QueryVectors == {NewVector(g) : g \in {GA, Fallback}}

\* the chains and transactions clients hand to the P2PAgglomerator
P2PChainArgs == {chain \in ChainArgs : chain.StateVector.Generator # Nil /\ chain.ID = "eth-1"}
P2PTxArgs == {tx \in RouteTxArgs : tx.StateVector.Generator = GA}

\* a client may call another operation
P2PReady == started < MaxP2PCalls

\* the locals of a goroutine entering StoreData(record) on behalf of `op`; msgs
\* are the messages it has sent
StoreJob(op, arg, record, route) ==
    [op |-> op, arg |-> arg, record |-> record, route |-> route,
     selected |-> <<>>, msgs |-> <<>>, waited |-> FALSE]

NoArg == [nil |-> TRUE]

\* a client calls P2PInfiniteVectorNode.StoreData(record)
StoreDataCall(c) ==
    /\ ppc[c] = "idle"
    /\ P2PReady
    /\ job' = [job EXCEPT ![c] = StoreJob("StoreData", NoArg, StoreRecord(c), <<>>)]
    /\ ppc' = [ppc EXCEPT ![c] = "select"]
    /\ started' = started + 1
    /\ UNCHANGED <<peers, routingVector, dataChannel, records, indexSpace, emitted,
                   received, call, aggVars, idxVars, vecVars, modVars>>

\* selectReplicationPeers(replicationFactor): the peers in any order the map
\* iteration and the sort can leave them in
SelectReplicationPeers(c) ==
    /\ ppc[c] = "select"
    /\ \E order \in Orders(DOMAIN peers) :
        /\ SortedBySimilarity(peers, routingVector, order)
        /\ job' = [job EXCEPT ![c].selected = selectReplicationPeers(order, replicationFactor)]
    /\ ppc' = [ppc EXCEPT ![c] = "send"]
    /\ UNCHANGED <<peers, routingVector, dataChannel, records, indexSpace, started,
                   emitted, received, call, aggVars, idxVars, vecVars, modVars>>

\* one pass of the loop over selectedPeers: the message for the next peer is built
\* and sent into dataChannel, which blocks while the buffer is full.  The buffer
\* numbers the messages as they enter.
SendDataMessage(c) ==
    /\ ppc[c] = "send"
    /\ Len(job[c].msgs) < Len(job[c].selected)
    /\ ChannelHasRoom(dataChannel)
    /\ LET dataMsg == DataTransferMessage(SelfID, job[c].selected[Len(job[c].msgs) + 1],
                                          job[c].record.ID)
       IN  /\ dataChannel' = Append(dataChannel, [msg |-> dataMsg, seq |-> emitted + 1])
           /\ job' = [job EXCEPT ![c].msgs = Append(@, dataMsg)]
    /\ emitted' = emitted + 1
    /\ UNCHANGED <<peers, routingVector, records, indexSpace, ppc, started, received,
                   call, aggVars, idxVars, vecVars, modVars>>

\* what the caller of StoreData does once StoreData has returned, as the next
\* position, locals, registry and result of client c
AfterStoreData(c) ==
    LET j == job[c]
        done == [ppc |-> "idle", job |-> NoJob, chains |-> chains, call |-> call]
    IN  CASE j.op = "StoreData" ->
                 [done EXCEPT !.call =
                     [op |-> "StoreData", record |-> j.record, waited |-> j.waited,
                      err |-> NoErr]]
          [] j.op = "RegisterChain" ->
                 [done EXCEPT !.call =
                     [op |-> "P2PAgglomerator.RegisterChain", chain |-> j.arg,
                      err |-> NoErr]]
          [] j.op = "ProcessTransaction" ->
                 \* executeP2PTransaction over the one chain id of the route
                 LET chainID == j.route[1]
                     localChain == AggGetChain(Agg, chainID)
                 IN  IF localChain.err = NoErr
                     THEN [ppc |-> "idle", job |-> NoJob,
                           chains |-> PoolInsert(Agg, chainID,
                                                 LocalHopRecord(j.arg, chainID)).chains,
                           call |-> [op |-> "P2PAgglomerator.ProcessTransaction",
                                     tx |-> j.arg, route |-> j.route, err |-> NoErr]]
                     ELSE [ppc |-> "select",
                           job |-> StoreJob("processPeerChain", j.arg,
                                            PeerHopRecord(j.arg, chainID), j.route),
                           chains |-> chains, call |-> call]
          [] j.op = "processPeerChain" ->
                 [done EXCEPT !.call =
                     [op |-> "P2PAgglomerator.ProcessTransaction", tx |-> j.arg,
                      route |-> j.route, err |-> NoErr]]

\* the loop over selectedPeers is over: the record is stored in
\* localDatabase.records, StoreData returns and its caller carries on
StoreLocal(c) ==
    /\ ppc[c] = "send"
    /\ Len(job[c].msgs) = Len(job[c].selected)
    /\ records' = StoreLocally(records, job[c].record)
    /\ LET after == AfterStoreData(c) IN
           /\ ppc' = [ppc EXCEPT ![c] = after.ppc]
           /\ job' = [job EXCEPT ![c] = after.job]
           /\ chains' = after.chains
           /\ call' = after.call
    /\ UNCHANGED <<peers, routingVector, dataChannel, indexSpace, started, emitted,
                   received, vectorIndex, lastReg, txIds, idxVars, vecVars, modVars>>

\* QueryData returns q to client c
QueryDataReturn(c, queryVector, q) ==
    call' = [op |-> "QueryData", queryVector |-> queryVector, results |-> q.results,
             err |-> IF q.panic THEN Panicked ELSE NoErr]

\* a client calls P2PInfiniteVectorNode.QueryData(queryVector)
QueryDataCall(c) ==
    /\ ppc[c] = "idle"
    /\ P2PReady
    /\ \E order \in Orders(DOMAIN indexSpace.vectorSpace), peerOrder \in Orders(DOMAIN peers),
          queryVector \in QueryVectors :
           QueryDataReturn(c, queryVector,
                           QueryData(indexSpace, order, peerOrder, queryVector))
    /\ started' = started + 1
    /\ UNCHANGED <<peers, routingVector, dataChannel, records, indexSpace, ppc, job,
                   emitted, received, aggVars, idxVars, vecVars, modVars>>

\* the senders the buffer keeps waiting: a full buffer, a message still to send
Blocked(c) ==
    /\ ppc[c] = "send"
    /\ Len(job[c].msgs) < Len(job[c].selected)
    /\ ~ChannelHasRoom(dataChannel)

\* handleDataTransfer: the select receives the oldest message of dataChannel and
\* hands it to processDataTransfer, which does nothing.  A sender the buffer kept
\* waiting is marked.
DispatchReceive ==
    /\ dataChannel # <<>>
    /\ dataChannel' = Tail(dataChannel)
    /\ received' = received + 1
    /\ job' = [c \in Clients |->
                  IF Blocked(c) THEN [job[c] EXCEPT !.waited = TRUE] ELSE job[c]]
    /\ UNCHANGED <<peers, routingVector, records, indexSpace, ppc, started, emitted,
                   call, aggVars, idxVars, vecVars, modVars>>

\* the candidates generateCandidatePeer can make up: any node id, the routing
\* vector's element of a random dimension as reputation
CandidatePeers ==
    {PeerInfo(peerID, routingVector[candidateDimension]) :
        peerID \in NodeIDs, candidateDimension \in 0 .. CandidateDims - 1}

\* one cycle of DiscoverPeers on the running node
DiscoverPeers ==
    /\ peers' \in {routePeerDiscovery(peers, routingVector, candidatePeer, routingDimension) :
                      candidatePeer \in LateCandidates,
                      routingDimension \in 0 .. RoutingDims - 1}
    /\ UNCHANGED <<routingVector, dataChannel, records, indexSpace, ppc, job, started,
                   emitted, received, call, aggVars, idxVars, vecVars, modVars>>

NodeNext ==
    \/ \E c \in Clients :
           \/ StoreDataCall(c)
           \/ QueryDataCall(c)
           \/ SelectReplicationPeers(c)
           \/ SendDataMessage(c)
           \/ StoreLocal(c)
    \/ DispatchReceive
    \/ DiscoverPeers

InitNode == InitBase /\ routingVector = RoutingB /\ peers \in {EmptyMap, ThreePeers}

SpecNode == InitNode /\ [][NodeNext]_vars

\* the Go scheduler runs every goroutine that can take a step: the dispatch task
\* and each client inside StoreData
NodeFairness ==
    /\ WF_vars(DispatchReceive)
    /\ \A c \in Clients :
           WF_vars(SelectReplicationPeers(c) \/ SendDataMessage(c) \/ StoreLocal(c))

SpecNodeLive == SpecNode /\ NodeFairness

----------------------------------------------------------------------------
(* The P2PAgglomerator on its running node.  syncChains only reads the node    *)
(* through QueryData and writes peerChains, which no operation here reads.     *)

\* RegisterChain: Agglomerator.RegisterChain under its lock, which never fails,
\* then StoreData of the chain's record
P2PRegisterChain(c) ==
    /\ ppc[c] = "idle"
    /\ P2PReady
    /\ \E chain \in P2PChainArgs :
        LET a == AggRegisterChain(Agg, WithPool(chain, NewInfiniteVectorIndex)) IN
        /\ chains' = a.chains
        /\ vectorIndex' = a.vectorIndex
        /\ lastReg' = MapSet(lastReg, chain.ID,
                             [last |-> chain,
                              replaced |-> /\ chain.ID \in DOMAIN lastReg
                                           /\ \/ lastReg[chain.ID].replaced
                                              \/ lastReg[chain.ID].last # chain])
        /\ job' = [job EXCEPT ![c] = StoreJob("RegisterChain", chain,
                                              P2PChainRecord(chain), <<>>)]
    /\ ppc' = [ppc EXCEPT ![c] = "select"]
    /\ started' = started + 1
    /\ UNCHANGED <<peers, routingVector, dataChannel, records, indexSpace, emitted,
                   received, call, txIds, idxVars, vecVars, modVars>>

\* ProcessTransaction once findP2POptimalRoute has returned r: without a route
\* the call returns, else StoreData of the transaction's record comes next
AfterRouteSearch(c, tx, r) ==
    IF r.err # NoErr
    THEN /\ call' = [op |-> "P2PAgglomerator.ProcessTransaction", tx |-> tx,
                     candidates |-> r.candidates, err |-> r.err]
         /\ UNCHANGED <<ppc, job>>
    ELSE /\ job' = [job EXCEPT ![c] = StoreJob("ProcessTransaction", tx,
                                               P2PTransactionRecord(tx), r.routeIDs)]
         /\ ppc' = [ppc EXCEPT ![c] = "select"]
         /\ UNCHANGED call

\* ProcessTransaction: findP2POptimalRoute under the read lock, then the rest
P2PProcessTransaction(c) ==
    /\ ppc[c] = "idle"
    /\ P2PReady
    /\ \E order \in Orders(DOMAIN indexSpace.vectorSpace), peerOrder \in Orders(DOMAIN peers),
          tx \in P2PTxArgs :
        AfterRouteSearch(c, tx, findP2POptimalRoute(indexSpace, order, peerOrder, tx))
    /\ started' = started + 1
    /\ UNCHANGED <<peers, routingVector, dataChannel, records, indexSpace, emitted,
                   received, aggVars, idxVars, vecVars, modVars>>

P2PNext ==
    \/ \E c \in Clients :
           \/ P2PRegisterChain(c)
           \/ P2PProcessTransaction(c)
           \/ SelectReplicationPeers(c)
           \/ SendDataMessage(c)
           \/ StoreLocal(c)
    \/ DispatchReceive
    \/ DiscoverPeers

SpecP2P == InitNode /\ [][P2PNext]_vars

----------------------------------------------------------------------------
(* The discovery task alone, for any node id, each cycle on record *)

DiscoverPeersCycle ==
    /\ \E candidatePeer \in CandidatePeers, routingDimension \in 0 .. RoutingDims - 1 :
        /\ peers' = routePeerDiscovery(peers, routingVector, candidatePeer, routingDimension)
        /\ call' = [op |-> "DiscoverPeers", n |-> 0, candidatePeer |-> candidatePeer,
                    routingDimension |-> routingDimension, err |-> NoErr]
    /\ UNCHANGED <<routingVector, dataChannel, records, indexSpace, ppc, job, started,
                   emitted, received, aggVars, idxVars, vecVars, modVars>>

InitDisc == InitBase /\ routingVector \in RoutingVectors /\ peers = EmptyMap

SpecDisc == InitDisc /\ [][DiscoverPeersCycle]_vars

----------------------------------------------------------------------------
(* The node and its agglomerator lock by lock.  Every goroutine runs the code   *)
(* of its operation as a list of instructions: Lock, RLock and Unlock of a      *)
(* named mutex, and the statements between them.  A goroutine holds the         *)
(* mutexes it has locked and not yet unlocked.  The mutexes are Go RWMutexes:   *)
(* Lock announces the writer, which keeps later readers out, and returns when   *)
(* nobody holds the mutex; RLock returns when no writer holds it or waits.      *)
(* The goroutines are the clients and the four tasks NewP2PAgglomerator         *)
(* starts: DiscoverPeers, handleDataTransfer, manageReputation, syncChains.     *)

\* the operations and task cycles that begin in one run
MaxLockOps == 2

Tasks == {"discovery", "dispatch", "decay", "sync"}
Goroutines == Clients \cup Tasks

\* the mutexes by the names the code gives them
AggMu == "a.mu"
VectorIndexMu == "a.vectorIndex.mu"
PeerMutex == "node.peerMutex"
ReputationMu == "node.reputation.mu"
LocalDatabaseMu == "node.localDatabase.mu"
IndexSpaceMu == "node.localDatabase.indexSpace.mu"
PeerChainsMu == "p.mu"
\* the mutex of the pool of the chain with id `id`.  The pool of a chain that has
\* been replaced has a mutex of its own; no goroutine takes another lock while it
\* holds a pool's, so that counting the two as one only delays an insert.
PoolMu(id) == "chain.TransactionPool.mu " \o id

Lock(m) == [i |-> "Lock", mu |-> m, arg |-> ""]
RLock(m) == [i |-> "RLock", mu |-> m, arg |-> ""]
Unlock(m) == [i |-> "Unlock", mu |-> m, arg |-> ""]
Do(statement, arg) == [i |-> statement, mu |-> "", arg |-> arg]

\* the instruction goroutine g comes to next
NextInstr(g) == Head(job[g].code)
At(g, statement) == ppc[g] = "run" /\ NextInstr(g).i = statement

Holds(g, m) == \E k \in DOMAIN job[g].held : job[g].held[k].mu = m
HoldsExclusively(g, m) ==
    \E k \in DOMAIN job[g].held : job[g].held[k] = [mu |-> m, mode |-> "W"]
AwaitsLock(g, m) == ppc[g] = "lockWait" /\ NextInstr(g).mu = m

\* the locals of the operations before they are set: of StoreData the peers
\* selected and the messages sent, of QueryData the results and the entries of
\* node.peers its loop has yet to visit, of executeP2PTransaction the route, the
\* chain id of the hop it is at, whether GetChain found that chain and whether the
\* chain found is still the one registered; as history, what GetChain answered
\* for each hop, the records the operation stored through StoreData and those
\* it inserted into pools.  syncChains, the
\* only code that touches p.peerChains, keeps that map here.
NoLocals ==
    [selected |-> <<>>, sent |-> 0, results |-> <<>>, toVisit |-> 0, answered |-> 0,
     ranging |-> FALSE, route |-> <<>>, chainID |-> "", found |-> FALSE,
     current |-> TRUE, hops |-> <<>>, stored |-> <<>>, inserted |-> <<>>,
     peerChains |-> EmptyMap]

\* the locals of a goroutine that starts on `code`
Running(op, arg, code) ==
    [op |-> op, arg |-> arg, code |-> code, held |-> <<>>, x |-> NoLocals]
Asleep == Running("none", "", <<>>)

\* the process has not died of a panic or a fatal error of the runtime
Alive == call.err # Panicked

\* goroutine g goes on with `code` and the locals x; a task that has run through
\* its cycle sleeps until the next, and keeps p.peerChains
Proceed(g, code, x) ==
    /\ job' = [job EXCEPT ![g] = IF code = <<>>
                                 THEN [Asleep EXCEPT !.x.peerChains = x.peerChains]
                                 ELSE [@ EXCEPT !.code = code, !.x = x]]
    /\ ppc' = [ppc EXCEPT ![g] = IF code = <<>> THEN "idle" ELSE "run"]

\* goroutine g has done its instruction, and `more` comes before the rest
Continue(g, more, x) == Proceed(g, more \o Tail(job[g].code), x)

\* what a step that only moves goroutines leaves alone
AggUnchanged == UNCHANGED <<chains, vectorIndex, lastReg, txIds>>
NodeUnchanged == UNCHANGED <<peers, routingVector, dataChannel, records, indexSpace,
                             emitted, received>>
ElsewhereUnchanged == UNCHANGED <<idxVars, vecVars, modVars>>

\* m.Lock() is called: the writer announces itself
LockCall(g) ==
    /\ Alive
    /\ At(g, "Lock")
    /\ ppc' = [ppc EXCEPT ![g] = "lockWait"]
    /\ UNCHANGED <<job, call, started>>
    /\ AggUnchanged /\ NodeUnchanged /\ ElsewhereUnchanged

\* m.Lock() can return
LockFree(g, m) == \A h \in Goroutines \ {g} : ~Holds(h, m)

\* m.Lock() returns
LockReturn(g) ==
    /\ Alive
    /\ ppc[g] = "lockWait"
    /\ LockFree(g, NextInstr(g).mu)
    /\ job' = [job EXCEPT ![g].code = Tail(@),
                          ![g].held = Append(@, [mu |-> NextInstr(g).mu, mode |-> "W"])]
    /\ ppc' = [ppc EXCEPT ![g] = "run"]
    /\ UNCHANGED <<call, started>>
    /\ AggUnchanged /\ NodeUnchanged /\ ElsewhereUnchanged

\* m.RLock() can return
RLockFree(g, m) ==
    \A h \in Goroutines \ {g} : ~HoldsExclusively(h, m) /\ ~AwaitsLock(h, m)

\* m.RLock() returns
RLockReturn(g) ==
    /\ Alive
    /\ At(g, "RLock")
    /\ RLockFree(g, NextInstr(g).mu)
    /\ job' = [job EXCEPT ![g].code = Tail(@),
                          ![g].held = Append(@, [mu |-> NextInstr(g).mu, mode |-> "R"])]
    /\ UNCHANGED <<ppc, call, started>>
    /\ AggUnchanged /\ NodeUnchanged /\ ElsewhereUnchanged

\* m.Unlock() or m.RUnlock(), also when deferred
UnlockReturn(g) ==
    /\ Alive
    /\ At(g, "Unlock")
    /\ job' = [job EXCEPT ![g] =
                   IF Tail(job[g].code) = <<>>
                   THEN [Asleep EXCEPT !.x.peerChains = job[g].x.peerChains]
                   ELSE [@ EXCEPT !.code = Tail(@),
                                  !.held = SelectSeq(@, LAMBDA l : l.mu # NextInstr(g).mu)]]
    /\ ppc' = [ppc EXCEPT ![g] = IF Tail(job[g].code) = <<>> THEN "idle" ELSE "run"]
    /\ UNCHANGED <<call, started>>
    /\ AggUnchanged /\ NodeUnchanged /\ ElsewhereUnchanged

\* the operation of a client returns the error `arg` of the instruction to its
\* caller
Return(g) ==
    /\ Alive
    /\ At(g, "return")
    /\ job' = [job EXCEPT ![g] = Asleep]
    /\ ppc' = [ppc EXCEPT ![g] = "idle"]
    /\ UNCHANGED <<call, started>>
    /\ AggUnchanged /\ NodeUnchanged /\ ElsewhereUnchanged

\* the chains and the transaction the clients of the running node pass: ids that
\* name a protocol, which findOptimalRoute needs to score a chain above zero
LockChainArgs ==
    {[ID |-> id, Endpoint |-> "http://localhost:8545", Protocol |-> id,
      StateVector |-> NewVector(GA)] : id \in {"eth"}}
LockTxArgs ==
    {[ID |-> "tx1", FromChain |-> "eth", ToChain |-> "eth",
      StateVector |-> NewVector(GA), Similarity |-> 5]}

\* the records a peer of the network may hold: the registration of a chain as
\* P2PAgglomerator.RegisterChain of a node stores it, one that names the peer
\* as well, and one of a node that wrote neither protocol nor endpoint
RemoteRecords ==
    {P2PChainRecord([ID |-> "eth", Endpoint |-> "http://localhost:8545",
                     Protocol |-> "eth", StateVector |-> NewVector(GA)]),
     DatabaseRecord("btc", [protocol |-> "btc", endpoint |-> "http://peer:8332",
                            type |-> "chain_registration", peer_id |-> "n1"],
                    NewVector(GA)),
     DatabaseRecord("sol", [type |-> "chain_registration", peer_id |-> "n2"],
                    NewVector(GA))}

\* a faulty StoreData that keeps node.peerMutex to its end
StoreDataCode_Deferred(record) ==
    <<RLock(PeerMutex), Do("selectReplicationPeers", ""), Do("send", record),
      Lock(LocalDatabaseMu), Do("storeLocally", record), Unlock(LocalDatabaseMu),
      Unlock(PeerMutex)>>

\* StoreData(record), statement by statement
StoreDataCode(record) ==
    <<RLock(PeerMutex), Do("selectReplicationPeers", ""), Unlock(PeerMutex),
      Do("send", record),
      Lock(LocalDatabaseMu), Do("storeLocally", record), Unlock(LocalDatabaseMu)>>

\* QueryData(queryVector), statement by statement: the query of the local index
\* under the index's lock, then the loop over node.peers
QueryDataCode(queryVector) ==
    <<RLock(IndexSpaceMu), Do("indexSpace.AdvancedQuery", queryVector),
      Unlock(IndexSpaceMu),
      Do("rangePeers", ""), Do("queryPeer", queryVector)>>

\* the body of selectReplicationPeers
SelectPeersStep(g) ==
    /\ Alive
    /\ At(g, "selectReplicationPeers")
    /\ \E order \in Orders(DOMAIN peers) :
        /\ SortedBySimilarity(peers, routingVector, order)
        /\ Continue(g, <<>>, [job[g].x EXCEPT
                                  !.selected = selectReplicationPeers(order, replicationFactor),
                                  !.sent = 0])
    /\ UNCHANGED <<call, started>>
    /\ AggUnchanged /\ NodeUnchanged /\ ElsewhereUnchanged

\* one pass of the loop over selectedPeers: node.dataChannel <- dataMsg, which
\* blocks while the buffer is full
SendStep(g) ==
    /\ Alive
    /\ At(g, "send")
    /\ job[g].x.sent < Len(job[g].x.selected)
    /\ ChannelHasRoom(dataChannel)
    /\ dataChannel' =
           Append(dataChannel,
                  [msg |-> DataTransferMessage(SelfID, job[g].x.selected[job[g].x.sent + 1],
                                               NextInstr(g).arg.ID),
                   seq |-> 0])
    /\ job' = [job EXCEPT ![g].x.sent = @ + 1]
    /\ UNCHANGED <<peers, routingVector, records, indexSpace, emitted, received,
                   ppc, call, started>>
    /\ AggUnchanged /\ ElsewhereUnchanged

\* the loop over selectedPeers is over
SendDone(g) ==
    /\ Alive
    /\ At(g, "send")
    /\ job[g].x.sent = Len(job[g].x.selected)
    /\ Continue(g, <<>>, [job[g].x EXCEPT !.selected = <<>>, !.sent = 0])
    /\ UNCHANGED <<call, started>>
    /\ AggUnchanged /\ NodeUnchanged /\ ElsewhereUnchanged

\* node.localDatabase.records[record.ID] = record
StoreLocallyStep(g) ==
    /\ Alive
    /\ At(g, "storeLocally")
    /\ records' = StoreLocally(records, NextInstr(g).arg)
    /\ Continue(g, <<>>, [job[g].x EXCEPT !.stored = Append(@, NextInstr(g).arg)])
    /\ UNCHANGED <<peers, routingVector, dataChannel, indexSpace, emitted, received,
                   call, started>>
    /\ AggUnchanged /\ ElsewhereUnchanged

\* the body of indexSpace.AdvancedQuery, its range loop in any order
LocalQueryStep(g) ==
    /\ Alive
    /\ At(g, "indexSpace.AdvancedQuery")
    /\ \E order \in Orders(DOMAIN indexSpace.vectorSpace) :
        Continue(g, <<>>,
                 [job[g].x EXCEPT
                     !.results = AdvancedQuery(indexSpace, order, QueryDataThreshold,
                                               NextInstr(g).arg, QueryDataDims).results])
    /\ UNCHANGED <<call, started>>
    /\ AggUnchanged /\ NodeUnchanged /\ ElsewhereUnchanged

\* for _, peer := range node.peers begins: the entries there are to visit
RangePeersStep(g) ==
    /\ Alive
    /\ At(g, "rangePeers")
    /\ Continue(g, <<>>, [job[g].x EXCEPT !.toVisit = Cardinality(DOMAIN peers),
                                           !.answered = 0, !.ranging = TRUE])
    /\ UNCHANGED <<call, started>>
    /\ AggUnchanged /\ NodeUnchanged /\ ElsewhereUnchanged

\* what the remote-query interface may return for one peer: nothing, as the
\* queryPeer of this repository does, or a record a node of the network holds
PeerAnswers == {queryPeer(DataTransferMessage(SelfID, "", ""))} \cup {<<r>> : r \in RemoteRecords}

\* one pass of the loop over node.peers: the peer's answer is appended
QueryPeerStep(g) ==
    /\ Alive
    /\ At(g, "queryPeer")
    /\ job[g].x.toVisit > 0
    /\ \E peerResults \in PeerAnswers :
        /\ job' = [job EXCEPT ![g].x.results = @ \o peerResults,
                              ![g].x.toVisit = @ - 1,
                              ![g].x.answered = @ + Len(peerResults)]
    /\ UNCHANGED <<ppc, call, started>>
    /\ AggUnchanged /\ NodeUnchanged /\ ElsewhereUnchanged

\* the loop over node.peers is over
RangeDone(g) ==
    /\ Alive
    /\ At(g, "queryPeer")
    /\ job[g].x.toVisit = 0
    /\ Continue(g, <<>>, [job[g].x EXCEPT !.ranging = FALSE, !.answered = 0])
    /\ UNCHANGED <<call, started>>
    /\ AggUnchanged /\ NodeUnchanged /\ ElsewhereUnchanged

\* the goroutines inside a range loop over node.peers without node.peerMutex
Rangers == {h \in Goroutines : job[h].x.ranging /\ ~Holds(h, PeerMutex)}

\* the runtime found a map written while it was iterated: the process dies
FatalError == [op |-> "fatal error: concurrent map iteration and map write",
               n |-> 0, err |-> Panicked]

\* DiscoverPeers: a cycle whose candidate is close enough comes to connectToPeer
DiscoverCall ==
    /\ Alive
    /\ ppc["discovery"] = "idle"
    /\ started < MaxLockOps
    /\ \E candidatePeer \in LateCandidates, routingDimension \in 0 .. RoutingDims - 1 :
        /\ CloseEnough(routingVector[routingDimension], candidatePeer.Reputation)
        /\ job' = [job EXCEPT !["discovery"] =
                       Running("DiscoverPeers", candidatePeer,
                               <<Lock(PeerMutex), Do("connect", candidatePeer),
                                 Unlock(PeerMutex)>>)]
    /\ ppc' = [ppc EXCEPT !["discovery"] = "run"]
    /\ started' = started + 1
    /\ UNCHANGED call
    /\ AggUnchanged /\ NodeUnchanged /\ ElsewhereUnchanged

\* the body of connectToPeer.  An insert while a goroutine iterates the map
\* unlocked is a data race: the runtime may stop the process, and else the
\* iteration may come to the new entry or miss it.
ConnectStep(g) ==
    /\ Alive
    /\ At(g, "connect")
    /\ peers' = connectToPeer(peers, NextInstr(g).arg)
    /\ IF peers' = peers \/ Rangers = {}
       THEN Continue(g, <<>>, job[g].x) /\ UNCHANGED call
       ELSE \/ call' = FatalError /\ UNCHANGED <<job, ppc>>
            \/ /\ \E seen \in SUBSET Rangers :
                    job' = [h \in Goroutines |->
                               IF h = g THEN [job[g] EXCEPT !.code = Tail(@)]
                               ELSE IF h \in seen
                                    THEN [job[h] EXCEPT !.x.toVisit = @ + 1]
                                    ELSE job[h]]
               /\ UNCHANGED <<ppc, call>>
    /\ UNCHANGED <<routingVector, dataChannel, records, indexSpace, emitted, received,
                   started>>
    /\ AggUnchanged /\ ElsewhereUnchanged

\* handleDataTransfer: the select receives the oldest message of dataChannel and
\* hands it to processDataTransfer, which does nothing
Receive ==
    /\ Alive
    /\ dataChannel # <<>>
    /\ dataChannel' = Tail(dataChannel)
    /\ UNCHANGED <<peers, routingVector, records, indexSpace, emitted, received,
                   ppc, job, call, started>>
    /\ AggUnchanged /\ ElsewhereUnchanged

\* manageReputation: a cycle begins
DecayCall ==
    /\ Alive
    /\ ppc["decay"] = "idle"
    /\ started < MaxLockOps
    /\ job' = [job EXCEPT !["decay"] =
                   Running("manageReputation", "",
                           <<Lock(ReputationMu), Do("decay", ""), Unlock(ReputationMu)>>)]
    /\ ppc' = [ppc EXCEPT !["decay"] = "run"]
    /\ started' = started + 1
    /\ UNCHANGED call
    /\ AggUnchanged /\ NodeUnchanged /\ ElsewhereUnchanged

\* the loop over peerReputation, which nothing ever puts an entry into
DecayStep(g) ==
    /\ Alive
    /\ At(g, "decay")
    /\ Continue(g, <<>>, job[g].x)
    /\ UNCHANGED <<call, started>>
    /\ AggUnchanged /\ NodeUnchanged /\ ElsewhereUnchanged

\* Agglomerator.RegisterChain(chain), statement by statement
RegisterChainCode(chain) ==
    <<Lock(AggMu), Do("storeChain", chain),
      Lock(VectorIndexMu), Do("vectorIndex.Insert", ChainRecord(chain)),
      Unlock(VectorIndexMu), Unlock(AggMu)>>

\* Agglomerator.ProcessTransaction(ctx, tx) up to the query of the global index
ProcessTransactionCode(tx) ==
    <<RLock(AggMu), RLock(VectorIndexMu), Do("vectorIndex.AdvancedQuery", tx)>>

\* Agglomerator.ProcessTransaction once the query has returned n results
AfterQueryCode(tx, n) ==
    <<Unlock(VectorIndexMu)>>
        \o IF n = 0
           THEN <<Unlock(AggMu), Do("return", ErrNoRouteFound)>>
           ELSE <<Lock(VectorIndexMu), Do("vectorIndex.Insert", TransactionRecord(tx)),
                  Unlock(VectorIndexMu), Do("lookup", tx)>>

\* pool.Insert(record) on the pool of chain id, the index's mutex around it
PoolInsertCode(id, record) ==
    <<Lock(PoolMu(id)), Do("pool.Insert", [id |-> id, record |-> record]),
      Unlock(PoolMu(id))>>

\* Agglomerator.ProcessTransaction from the two registry lookups on
AfterLookupCode(tx, exists) ==
    IF ~exists
    THEN <<Unlock(AggMu), Do("return", ErrChainNotFound)>>
    ELSE PoolInsertCode(tx.FromChain, TransactionRecord(tx))
             \o PoolInsertCode(tx.ToChain, TransactionRecord(tx))
             \o <<Unlock(AggMu), Do("return", NoErr)>>

\* Agglomerator.GetChain(id) and ListChains() up to the read of the registry
GetChainCode(id) == <<RLock(AggMu), Do("GetChain", id)>>
ListChainsCode == <<RLock(AggMu), Do("ListChains", ""), Unlock(AggMu), Do("return", NoErr)>>

\* P2PAgglomerator.RegisterChain(chain)
P2PRegisterChainCode(chain) ==
    RegisterChainCode(chain) \o StoreDataCode(P2PChainRecord(chain))
        \o <<Do("return", NoErr)>>

\* a faulty findP2POptimalRoute that takes p.mu again once QueryData is back
P2PProcessTransactionCode_Reentrant(tx) ==
    <<RLock(PeerChainsMu)>> \o QueryDataCode(tx.StateVector)
        \o <<RLock(PeerChainsMu), Do("findOptimalRoute", tx)>>

\* P2PAgglomerator.ProcessTransaction(ctx, tx) up to the choice of the route
P2PProcessTransactionCode(tx) ==
    <<RLock(PeerChainsMu)>> \o QueryDataCode(tx.StateVector)
        \o <<Do("findOptimalRoute", tx)>>

RECURSIVE HopsCode(_, _)
\* the loop of executeP2PTransaction over the route, up to each GetChain
HopsCode(tx, route) ==
    IF route = <<>> THEN <<>>
    ELSE GetChainCode(Head(route)) \o HopsCode(tx, Tail(route))

\* a faulty hop that broadcasts a local chain's record as well
HopCode_Both(tx, chainID, found) ==
    IF found
    THEN PoolInsertCode(chainID, LocalHopRecord(tx, chainID))
             \o StoreDataCode(PeerHopRecord(tx, chainID))
    ELSE StoreDataCode(PeerHopRecord(tx, chainID))

\* one pass of the loop of executeP2PTransaction once GetChain has returned:
\* processLocalChain for a chain it found, processPeerChain else
HopCode(tx, chainID, found) ==
    IF found
    THEN PoolInsertCode(chainID, LocalHopRecord(tx, chainID))
    ELSE StoreDataCode(PeerHopRecord(tx, chainID))

\* P2PAgglomerator.ProcessTransaction from the route on: without a route it
\* returns the error, else StoreData of the transaction and the hops
AfterRouteCode(tx, r) ==
    <<Unlock(PeerChainsMu)>>
        \o IF r.err # NoErr
           THEN <<Do("return", r.err)>>
           ELSE StoreDataCode(P2PTransactionRecord(tx)) \o HopsCode(tx, r.routeIDs)
                    \o <<Do("return", NoErr)>>

\* chain.TransactionPool = NewInfiniteVectorIndex(); a.chains[chain.ID] = chain.
\* A goroutine that holds the chain GetChain gave it under this id now holds a
\* chain that is no longer the registered one.
StoreChainStep(g) ==
    /\ Alive
    /\ At(g, "storeChain")
    /\ chains' = MapSet(chains, NextInstr(g).arg.ID,
                        WithPool(NextInstr(g).arg, NewInfiniteVectorIndex))
    /\ job' = [h \in Goroutines |->
                  IF h = g THEN [job[g] EXCEPT !.code = Tail(@)]
                  ELSE IF job[h].x.found /\ job[h].x.chainID = NextInstr(g).arg.ID
                       THEN [job[h] EXCEPT !.x.current = FALSE]
                       ELSE job[h]]
    /\ UNCHANGED <<vectorIndex, lastReg, txIds, ppc, call, started>>
    /\ NodeUnchanged /\ ElsewhereUnchanged

\* the body of a.vectorIndex.Insert(record)
IndexInsertStep(g) ==
    /\ Alive
    /\ At(g, "vectorIndex.Insert")
    /\ vectorIndex' = IndexInsert(vectorIndex, NextInstr(g).arg)
    /\ Continue(g, <<>>, job[g].x)
    /\ UNCHANGED <<chains, lastReg, txIds, call, started>>
    /\ NodeUnchanged /\ ElsewhereUnchanged

\* the body of a.vectorIndex.AdvancedQuery, its range loop in any order, and
\* the test of len(similarChains)
AggQueryStep(g) ==
    /\ Alive
    /\ At(g, "vectorIndex.AdvancedQuery")
    /\ \E order \in Orders(DOMAIN vectorIndex.vectorSpace) :
        LET tx == NextInstr(g).arg
            similarChains == AdvancedQuery(vectorIndex, order, tx.Similarity,
                                           tx.StateVector, QueryDims)
        IN  Continue(g, AfterQueryCode(tx, Len(similarChains.results)), job[g].x)
    /\ UNCHANGED <<call, started>>
    /\ AggUnchanged /\ NodeUnchanged /\ ElsewhereUnchanged

\* the lookups of tx.FromChain and tx.ToChain in a.chains
LookupStep(g) ==
    /\ Alive
    /\ At(g, "lookup")
    /\ LET tx == NextInstr(g).arg IN
           Continue(g, AfterLookupCode(tx, /\ tx.FromChain \in DOMAIN chains
                                           /\ tx.ToChain \in DOMAIN chains),
                    job[g].x)
    /\ UNCHANGED <<call, started>>
    /\ AggUnchanged /\ NodeUnchanged /\ ElsewhereUnchanged

\* the body of Insert on a chain's pool.  The pool is the registered chain's,
\* unless the goroutine holds a chain that has been replaced: then the record
\* goes into the pool of that chain, which the registry no longer has.
PoolInsertStep(g) ==
    /\ Alive
    /\ At(g, "pool.Insert")
    /\ LET ins == NextInstr(g).arg IN
        /\ chains' = IF job[g].x.current
                     THEN PoolInsert(Agg, ins.id, ins.record).chains
                     ELSE chains
        /\ Continue(g, <<>>, [job[g].x EXCEPT
                                 !.inserted = Append(@, [id |-> ins.id, record |-> ins.record,
                                                         current |-> job[g].x.current]),
                                 !.chainID = "", !.found = FALSE, !.current = TRUE])
    /\ UNCHANGED <<vectorIndex, lastReg, txIds, call, started>>
    /\ NodeUnchanged /\ ElsewhereUnchanged

\* the body of GetChain.  The operation GetChain returns what it found; in
\* executeP2PTransaction the hop follows.
GetChainStep(g) ==
    /\ Alive
    /\ At(g, "GetChain")
    /\ LET id == NextInstr(g).arg
           localChain == AggGetChain(Agg, id)
       IN  IF job[g].op = "GetChain"
           THEN Continue(g, <<Unlock(AggMu), Do("return", localChain.err)>>, job[g].x)
           ELSE Continue(g, <<Unlock(AggMu)>> \o HopCode(job[g].arg, id, localChain.err = NoErr),
                         [job[g].x EXCEPT
                             !.chainID = id, !.found = localChain.err = NoErr,
                             !.current = TRUE,
                             !.hops = Append(@, [id |-> id, found |-> localChain.err = NoErr])])
    /\ UNCHANGED <<call, started>>
    /\ AggUnchanged /\ NodeUnchanged /\ ElsewhereUnchanged

\* the body of ListChains
ListChainsStep(g) ==
    /\ Alive
    /\ At(g, "ListChains")
    /\ Continue(g, <<>>, job[g].x)
    /\ UNCHANGED <<call, started>>
    /\ AggUnchanged /\ NodeUnchanged /\ ElsewhereUnchanged

\* result.Metadata[key].(string) panics for one of the keys: a query result that
\* is a chain registration lacks the entry
AssertionPanics(results, keys) ==
    \E i \in DOMAIN results :
        /\ IsChainRegistration(results[i])
        /\ ~(keys \subseteq DOMAIN results[i].Metadata)

\* the goroutine panics, nothing recovers, the process dies
Panic == [op |-> "panic: interface conversion: interface {} is nil, not string",
          n |-> 0, err |-> Panicked]

\* findP2POptimalRoute from the results of QueryData on: the candidates, the
\* route, the route's ids
RouteStep(g) ==
    /\ Alive
    /\ At(g, "findOptimalRoute")
    /\ LET tx == NextInstr(g).arg IN
           IF AssertionPanics(job[g].x.results, {"protocol", "endpoint"})
           THEN call' = Panic /\ UNCHANGED <<job, ppc>>
           ELSE LET r == RouteAmong(FALSE, CandidateChains(job[g].x.results), tx) IN
                    /\ Continue(g, AfterRouteCode(tx, r),
                                [job[g].x EXCEPT !.route = r.routeIDs, !.results = <<>>])
                    /\ UNCHANGED call
    /\ UNCHANGED started
    /\ AggUnchanged /\ NodeUnchanged /\ ElsewhereUnchanged

RECURSIVE AppendPeerChains(_, _)
\* the loop of syncChains over the results, which appends every chain
\* registration to the list of its peer
AppendPeerChains(peerChains, results) ==
    IF results = <<>> THEN peerChains
    ELSE LET result == Head(results)
             peerID == result.Metadata.peer_id
             chain == [ID |-> result.ID, Protocol |-> result.Metadata.protocol,
                       Endpoint |-> result.Metadata.endpoint,
                       StateVector |-> result.Vector]
         IN  IF IsChainRegistration(result)
             THEN AppendPeerChains(
                      MapSet(peerChains, peerID,
                             IF peerID \in DOMAIN peerChains
                             THEN Append(peerChains[peerID], chain) ELSE <<chain>>),
                      Tail(results))
             ELSE AppendPeerChains(peerChains, Tail(results))

\* syncChains: the ticker fires and a cycle begins with the wildcard query
SyncCall ==
    /\ Alive
    /\ ppc["sync"] = "idle"
    /\ started < MaxLockOps
    /\ job' = [job EXCEPT !["sync"] =
                   [Running("syncChains", "",
                            QueryDataCode(NewVector(Wildcard))
                                \o <<Lock(PeerChainsMu), Do("appendPeerChains", ""),
                                     Unlock(PeerChainsMu)>>)
                       EXCEPT !.x.peerChains = job["sync"].x.peerChains]]
    /\ ppc' = [ppc EXCEPT !["sync"] = "run"]
    /\ started' = started + 1
    /\ UNCHANGED call
    /\ AggUnchanged /\ NodeUnchanged /\ ElsewhereUnchanged

\* the loop of syncChains under p.mu
AppendStep(g) ==
    /\ Alive
    /\ At(g, "appendPeerChains")
    /\ IF AssertionPanics(job[g].x.results, {"peer_id", "protocol", "endpoint"})
       THEN call' = Panic /\ UNCHANGED <<job, ppc>>
       ELSE /\ Continue(g, <<>>,
                        [job[g].x EXCEPT
                            !.peerChains = AppendPeerChains(@, job[g].x.results),
                            !.results = <<>>])
            /\ UNCHANGED call
    /\ UNCHANGED started
    /\ AggUnchanged /\ NodeUnchanged /\ ElsewhereUnchanged

\* the agglomerator once P2PAgglomerator.RegisterChain(chain) has returned
Registered(chain) == AggRegisterChain(NewAgglomerator, WithPool(chain, NewInfiniteVectorIndex))

\* the node as NewP2PAgglomerator leaves it, two cycles of discovery later, and
\* the same after a first RegisterChain whose messages are dispatched
InitLocks ==
    /\ \/ /\ chains = NewAgglomerator.chains
          /\ vectorIndex = NewAgglomerator.vectorIndex
          /\ records = EmptyMap
       \/ \E chain \in LockChainArgs :
             /\ chains = Registered(chain).chains
             /\ vectorIndex = Registered(chain).vectorIndex
             /\ records = StoreLocally(EmptyMap, P2PChainRecord(chain))
    /\ lastReg = EmptyMap
    /\ txIds = [passed |-> {}, again |-> {}]
    /\ db = NewInfiniteVectorIndex
    /\ lastIns = EmptyMap
    /\ call = NoCall
    /\ VecIdle
    /\ ModuleIdle
    /\ routingVector = RoutingB
    /\ peers = connectToPeer(connectToPeer(EmptyMap, PeerInfo("n2", RoutingB[1])),
                             PeerInfo("n3", RoutingB[0]))
    /\ dataChannel = <<>>
    /\ indexSpace = NewInfiniteVectorIndex
    /\ ppc = [g \in Goroutines |-> "idle"]
    /\ job = [g \in Goroutines |-> Asleep]
    /\ started = 0
    /\ emitted = 0
    /\ received = 0

\* client c enters operation op with argument arg
Enters(c, op, arg, code) ==
    /\ Alive
    /\ ppc[c] = "idle"
    /\ started < MaxLockOps
    /\ job' = [job EXCEPT ![c] = Running(op, arg, code)]
    /\ ppc' = [ppc EXCEPT ![c] = "run"]
    /\ started' = started + 1
    /\ UNCHANGED call
    /\ AggUnchanged /\ NodeUnchanged /\ ElsewhereUnchanged

EnterRegisterChain(c) ==
    \E chain \in LockChainArgs :
        Enters(c, "P2PAgglomerator.RegisterChain", chain, P2PRegisterChainCode(chain))

EnterP2PProcessTransaction(c) ==
    \E tx \in LockTxArgs :
        Enters(c, "P2PAgglomerator.ProcessTransaction", tx, P2PProcessTransactionCode(tx))

EnterAggProcessTransaction(c) ==
    \E tx \in LockTxArgs :
        Enters(c, "Agglomerator.ProcessTransaction", tx, ProcessTransactionCode(tx))

EnterGetChain(c) ==
    \E id \in {chain.ID : chain \in LockChainArgs} :
        Enters(c, "GetChain", id, GetChainCode(id))

EnterListChains(c) == Enters(c, "ListChains", "", ListChainsCode)

EnterStoreData(c) ==
    Enters(c, "StoreData", StoreRecord(c),
           StoreDataCode(StoreRecord(c)) \o <<Do("return", NoErr)>>)

EnterQueryData(c) ==
    \E queryVector \in {NewVector(GA)} :
        Enters(c, "QueryData", queryVector,
               QueryDataCode(queryVector) \o <<Do("return", NoErr)>>)

\* an operation or a cycle of a task begins
Begins ==
    \/ \E c \in Clients :
           \/ EnterRegisterChain(c)
           \/ EnterP2PProcessTransaction(c)
           \/ EnterAggProcessTransaction(c)
           \/ EnterGetChain(c)
           \/ EnterListChains(c)
           \/ EnterStoreData(c)
           \/ EnterQueryData(c)
    \/ DiscoverCall
    \/ DecayCall
    \/ SyncCall

\* goroutine g, inside an operation or a cycle, does its next instruction
Step(g) ==
    \/ Return(g)
    \/ LockCall(g)
    \/ LockReturn(g)
    \/ RLockReturn(g)
    \/ UnlockReturn(g)
    \/ StoreChainStep(g)
    \/ IndexInsertStep(g)
    \/ AggQueryStep(g)
    \/ LookupStep(g)
    \/ PoolInsertStep(g)
    \/ GetChainStep(g)
    \/ ListChainsStep(g)
    \/ RouteStep(g)
    \/ AppendStep(g)
    \/ SelectPeersStep(g)
    \/ SendStep(g)
    \/ SendDone(g)
    \/ StoreLocallyStep(g)
    \/ LocalQueryStep(g)
    \/ RangePeersStep(g)
    \/ QueryPeerStep(g)
    \/ RangeDone(g)
    \/ ConnectStep(g)
    \/ DecayStep(g)

LocksNext == Begins \/ Receive \/ \E g \in Goroutines : Step(g)

\* the running node and its agglomerator, lock by lock
SpecLocks == InitLocks /\ [][LocksNext]_vars

----------------------------------------------------------------------------
(* The AgglomeratorModule and the ModuleRegistry.  The module has three     *)
(* state fields: the state of the BaseModule it embeds, its own field       *)
(* state, and moduleState, which GetState and SetState go by.  A registry   *)
(* holds modules by name: the agglomerator module and plain BaseModules.    *)

\* what ConfigManager.GetConfig and json.Unmarshal make of the module's entry
ConfigOutcomes == {"loaded", "no configuration found", "unparsable"}

ErrConfigLoad == "failed to load config"
ErrConfigParse == "failed to parse config"
ErrNotRunning == "module not in running state"
ErrModuleNotRunning == "module not running"
ErrModuleNotPaused == "module not paused"
ErrAlreadyRegistered == "module already registered"
ErrInitializeFailed == "failed to initialize"
ErrMissingDependency == "missing dependency"

\* the dependencies one registration names
MaxDeps == 1

\* EnabledChains of the module's configuration
EnabledChainsArgs ==
    SeqsUpTo({c \in ChainConfigs : c.ID = "eth" /\ c.Protocol = "eth"}, 1)

GetState(m) == m.moduleState
SetState(m, state) == [m EXCEPT !.moduleState = state]

\* Initialize of the module `name`: BaseModule.Initialize for a plain module;
\* for the agglomerator module BaseModule.Initialize, then the configuration,
\* the agglomerator and its chains, and the assignment to the field state
ModuleInitialize(m, name, config) ==
    IF name # AgglomeratorModuleName
    THEN [m |-> [m EXCEPT !.baseState = StateInitialized], built |-> FALSE, err |-> NoErr]
    ELSE IF config = "loaded"
         THEN [m |-> [m EXCEPT !.baseState = StateInitialized, !.state = StateRunning,
                               !.agglomerator = TRUE],
               built |-> TRUE, err |-> NoErr]
         ELSE [m |-> [m EXCEPT !.baseState = StateInitialized, !.state = StateError],
               built |-> FALSE,
               err |-> IF config = "unparsable" THEN ErrConfigParse ELSE ErrConfigLoad]

\* ModuleRegistry.Register(module): a taken name is refused, Initialize runs,
\* and the module enters the map if Initialize succeeded
Register(r, ms, name, config) ==
    IF name \in r.modules
    THEN [registry |-> r, modules |-> ms, built |-> FALSE, err |-> ErrAlreadyRegistered]
    ELSE LET init == ModuleInitialize(ms[name], name, config) IN
         IF init.err # NoErr
         THEN [registry |-> r, modules |-> [ms EXCEPT ![name] = init.m],
               built |-> FALSE, err |-> ErrInitializeFailed]
         ELSE [registry |-> [r EXCEPT !.modules = @ \cup {name}],
               modules |-> [ms EXCEPT ![name] = init.m], built |-> init.built,
               err |-> NoErr]

\* resolveDeps(name): every dependency recorded for name must be registered
resolveDeps(r, name) ==
    IF \E k \in DOMAIN r.deps[name] : r.deps[name][k] \notin r.modules
    THEN ErrMissingDependency ELSE NoErr

\* ModuleRegistry.RegisterWithDeps(module, deps): Register, then the
\* dependencies are recorded and resolved
RegisterWithDeps(r, ms, name, deps, config) ==
    LET reg == Register(r, ms, name, config)
        recorded == [reg.registry EXCEPT !.deps = MapSet(@, name, deps)]
    IN  IF reg.err # NoErr THEN reg
        ELSE [registry |-> recorded, modules |-> reg.modules, built |-> reg.built,
              err |-> resolveDeps(recorded, name)]

\* the agglomerator a successful Initialize of the agglomerator module builds
BuiltAgglomerator(enabledChains) == InitializeChains(NewAgglomerator, enabledChains)

\* what the calls on modules and registry leave alone
ModuleFrame == UNCHANGED <<lastReg, txIds, idxVars, vecVars, nodeVars>>

\* module.Initialize() called directly, as the command line does
InitializeCall ==
    /\ \E config \in ConfigOutcomes, enabledChains \in EnabledChainsArgs :
        LET init == ModuleInitialize(modules[AgglomeratorModuleName],
                                     AgglomeratorModuleName, config)
        IN  /\ modules' = [modules EXCEPT ![AgglomeratorModuleName] = init.m]
            /\ chains' = IF init.built THEN BuiltAgglomerator(enabledChains).chains
                         ELSE chains
            /\ vectorIndex' = IF init.built THEN BuiltAgglomerator(enabledChains).vectorIndex
                              ELSE vectorIndex
            /\ call' = [op |-> "Initialize", n |-> 0, name |-> AgglomeratorModuleName,
                        err |-> init.err]
    /\ UNCHANGED moduleRegistry
    /\ ModuleFrame

\* AgglomeratorModule.ProcessTransaction(tx): refused unless GetState() is
\* running, else handed to the agglomerator
ModuleProcessTransaction ==
    /\ \E tx \in RouteTxArgs, order \in Orders(DOMAIN vectorIndex.vectorSpace) :
        LET m == modules[AgglomeratorModuleName]
            r == AggProcessTransaction(Agg, order, tx)
        IN  IF GetState(m) # StateRunning
            THEN /\ call' = [op |-> "Module.ProcessTransaction", n |-> 0, tx |-> tx,
                             reached |-> FALSE, err |-> ErrNotRunning]
                 /\ UNCHANGED <<chains, vectorIndex>>
            ELSE /\ call' = [op |-> "Module.ProcessTransaction", n |-> 0, tx |-> tx,
                             reached |-> TRUE,
                             err |-> IF m.agglomerator THEN r.err ELSE Panicked]
                 /\ chains' = IF m.agglomerator THEN r.a.chains ELSE chains
                 /\ vectorIndex' = IF m.agglomerator THEN r.a.vectorIndex ELSE vectorIndex
    /\ UNCHANGED <<modules, moduleRegistry>>
    /\ ModuleFrame

\* API.PauseModule: accepted from running only
PauseModule ==
    /\ LET m == modules[AgglomeratorModuleName] IN
           IF GetState(m) # StateRunning
           THEN /\ call' = [op |-> "PauseModule", n |-> 0, err |-> ErrModuleNotRunning]
                /\ UNCHANGED modules
           ELSE /\ call' = [op |-> "PauseModule", n |-> 0, err |-> NoErr]
                /\ modules' = [modules EXCEPT ![AgglomeratorModuleName] =
                                   SetState(m, StatePaused)]
    /\ UNCHANGED <<moduleRegistry, chains, vectorIndex>>
    /\ ModuleFrame

\* API.ResumeModule: accepted from paused only
ResumeModule ==
    /\ LET m == modules[AgglomeratorModuleName] IN
           IF GetState(m) # StatePaused
           THEN /\ call' = [op |-> "ResumeModule", n |-> 0, err |-> ErrModuleNotPaused]
                /\ UNCHANGED modules
           ELSE /\ call' = [op |-> "ResumeModule", n |-> 0, err |-> NoErr]
                /\ modules' = [modules EXCEPT ![AgglomeratorModuleName] =
                                   SetState(m, StateRunning)]
    /\ UNCHANGED <<moduleRegistry, chains, vectorIndex>>
    /\ ModuleFrame

\* the registry and the modules take what a registration made of them
Registers(op, name, deps, reg, enabledChains) ==
    /\ moduleRegistry' = reg.registry
    /\ modules' = reg.modules
    /\ chains' = IF reg.built THEN BuiltAgglomerator(enabledChains).chains ELSE chains
    /\ vectorIndex' = IF reg.built THEN BuiltAgglomerator(enabledChains).vectorIndex
                      ELSE vectorIndex
    /\ call' = [op |-> op, n |-> 0, name |-> name, deps |-> deps,
                before |-> [registry |-> moduleRegistry, module |-> modules[name]],
                err |-> reg.err]
    /\ ModuleFrame

RegisterCall ==
    \E name \in ModuleNames, config \in ConfigOutcomes,
       enabledChains \in EnabledChainsArgs :
        Registers("Register", name, <<>>, Register(moduleRegistry, modules, name, config),
                  enabledChains)

RegisterWithDepsCall ==
    \E name \in ModuleNames, config \in ConfigOutcomes,
       enabledChains \in EnabledChainsArgs,
       deps \in SeqsUpTo(ModuleNames, MaxDeps) :
        Registers("RegisterWithDeps", name, deps,
                  RegisterWithDeps(moduleRegistry, modules, name, deps, config), enabledChains)

ModuleNext ==
    \/ InitializeCall
    \/ ModuleProcessTransaction
    \/ PauseModule
    \/ ResumeModule
    \/ RegisterCall
    \/ RegisterWithDepsCall

\* a new agglomerator module, plain modules and an empty registry under any
\* sequence of calls
SpecModule == Init /\ [][ModuleNext]_vars

----------------------------------------------------------------------------
(* Claims about the agglomerator, checked under SpecAgg *)

\* the query of ProcessTransaction(tx) returns and returns at least one record
QueryMatchesSome(index, tx) ==
    /\ ~Panics(tx.StateVector, QueryDims)
    /\ \E id \in DOMAIN index.vectorSpace :
           Matches(index, id, tx.Similarity, tx.StateVector, QueryDims)

\* the record of tx is what `index` holds under tx.ID, in both of its maps
HoldsTransaction(index, tx) ==
    /\ tx.ID \in DOMAIN index.vectorSpace
    /\ tx.ID \in DOMAIN index.metadataStore
    /\ StoredRecord(index, tx.ID) =
           DatabaseRecord(tx.ID, [fromChain |-> tx.FromChain, toChain |-> tx.ToChain],
                          WithFallback(tx.StateVector))

\* C1: whenever ProcessTransaction(tx) runs in a state where tx.FromChain and
\* tx.ToChain are registered and the global query matches at least one record, it
\* returns success, and afterwards the record of tx is in the global index and in
\* the transaction pools of both endpoint chains.
C1_ProcessTransactionSucceeds ==
    [][call'.op = "ProcessTransaction" =>
         LET tx == call'.tx IN
         (/\ tx.FromChain \in DOMAIN chains
          /\ tx.ToChain \in DOMAIN chains
          /\ QueryMatchesSome(vectorIndex, tx))
         => /\ call'.err = NoErr
            /\ HoldsTransaction(vectorIndex', tx)
            /\ HoldsTransaction(chains'[tx.FromChain].TransactionPool, tx)
            /\ HoldsTransaction(chains'[tx.ToChain].TransactionPool, tx)]_vars

\* a transaction between two different registered chains went through
C1_Witness ==
    /\ call.op = "ProcessTransaction"
    /\ call.err = NoErr
    /\ call.tx.FromChain # call.tx.ToChain
    /\ HoldsTransaction(chains[call.tx.FromChain].TransactionPool, call.tx)
    /\ HoldsTransaction(chains[call.tx.ToChain].TransactionPool, call.tx)

\* some registered chain's state vector reaches the threshold of tx
SomeChainMatches(registry, tx) ==
    \E id \in DOMAIN registry :
        SimilarityAtLeast(
            ComputeVectorSimilarity(tx.StateVector,
                                    WithFallback(registry[id].StateVector), QueryDims),
            tx.Similarity)

\* C2: ProcessTransaction(tx) fails with NoRouteFound whenever no registered
\* chain's state vector has similarity >= tx.Similarity to tx.StateVector over the
\* first 50 dimensions, whatever transactions were submitted before.  (The registry
\* and its state vectors are the same before and after the call.)
C2_NoRouteWithoutSimilarChain ==
    (/\ call.op = "ProcessTransaction"
     /\ call.tx.StateVector.Generator # Nil
     /\ ~SomeChainMatches(chains, call.tx))
    => call.err = ErrNoRouteFound

\* C3: whenever ProcessTransaction(tx) runs in a state where the global query
\* matches some record and tx.FromChain is not registered, or only tx.ToChain is
\* not, that same call returns ChainNotFound.
C3_ChainNotFound ==
    [][call'.op = "ProcessTransaction" =>
         LET tx == call'.tx IN
         (/\ QueryMatchesSome(vectorIndex, tx)
          /\ tx.FromChain \notin DOMAIN chains \/ tx.ToChain \notin DOMAIN chains)
         => /\ call'.err = ErrChainNotFound
            /\ call'.n = call.n + 1]_vars

\* the sender is registered, the receiver is not, other chains matched
C3_Witness ==
    /\ call.op = "ProcessTransaction"
    /\ call.err = ErrChainNotFound
    /\ call.tx.FromChain \in DOMAIN chains
    /\ call.tx.ToChain \notin DOMAIN chains

\* C4: ProcessTransaction(tx) with a transaction whose state vector carries no
\* generator returns an error to its caller in every state of the agglomerator:
\* the call returns, and what it returns is not success.
C4_NoGeneratorIsAnError ==
    (call.op = "ProcessTransaction" /\ call.tx.StateVector.Generator = Nil)
    => call.err \in {ErrNoRouteFound, ErrChainNotFound}

\* C5: after RegisterChain(chain) the registry maps chain.ID to the chain, the
\* chain owns an empty transaction pool (also when the id was registered before and
\* its earlier pool held transactions), and the global index holds under chain.ID
\* the chain's state vector (the fallback when it carries no generator) with the
\* metadata {protocol, endpoint}.
C5_RegisterChainPostcondition ==
    call.op = "RegisterChain" =>
        LET chain == call.chain IN
        /\ chain.ID \in DOMAIN chains
        /\ chains[chain.ID] = WithPool(chain, NewInfiniteVectorIndex)
        /\ chain.ID \in DOMAIN vectorIndex.vectorSpace
        /\ chain.ID \in DOMAIN vectorIndex.metadataStore
        /\ StoredRecord(vectorIndex, chain.ID) =
               DatabaseRecord(chain.ID,
                              [protocol |-> chain.Protocol, endpoint |-> chain.Endpoint],
                              WithFallback(chain.StateVector))

\* a chain whose pool held a transaction was registered again
C5_Witness ==
    /\ call.op = "RegisterChain"
    /\ call.hadTransactions
    /\ DOMAIN chains[call.chain.ID].TransactionPool.vectorSpace = {}

\* the fields of a chain a caller sets
ChainFields(chain) ==
    [ID |-> chain.ID, Endpoint |-> chain.Endpoint, Protocol |-> chain.Protocol,
     StateVector |-> chain.StateVector]

\* C6: GetChain(id) succeeds iff id was registered at least once, and then returns
\* the chain of the latest RegisterChain for id; otherwise it fails with
\* ChainNotFound.  ListChains returns exactly one chain per registered id.  Neither
\* changes the registry (pools included) or the global index.
C6_GetChainListChains ==
    [][/\ call'.op = "GetChain" =>
            /\ chains' = chains /\ vectorIndex' = vectorIndex
            /\ IF call'.id \in DOMAIN lastReg
               THEN /\ call'.err = NoErr
                    /\ ChainFields(call'.chain) = lastReg[call'.id].last
                    /\ call'.chain = chains[call'.id]
               ELSE /\ call'.err = ErrChainNotFound
                    /\ call'.chain = NoChain
       /\ call'.op = "ListChains" =>
            /\ chains' = chains /\ vectorIndex' = vectorIndex
            /\ Len(call'.chains) = Cardinality(DOMAIN lastReg)
            /\ {call'.chains[i].ID : i \in DOMAIN call'.chains} = DOMAIN lastReg
            /\ \A i \in DOMAIN call'.chains :
                   ChainFields(call'.chains[i]) = lastReg[call'.chains[i].ID].last]_vars

\* GetChain returned a chain that had been registered twice, differently
C6_Witness ==
    /\ call.op = "GetChain"
    /\ call.err = NoErr
    /\ lastReg[call.id].replaced
    /\ ChainFields(call.chain) = lastReg[call.id].last

----------------------------------------------------------------------------
(* Claims about the index, checked under SpecIdx *)

\* C7: after any sequence of Insert calls the index holds exactly one record per
\* inserted id, with the vector (the fallback when it carried no generator) and the
\* metadata of the last Insert for that id; the ids with a stored vector are the
\* ids with stored metadata.
C7_InsertOverwrites ==
    /\ DOMAIN db.vectorSpace = DOMAIN db.metadataStore
    /\ DOMAIN db.vectorSpace = DOMAIN lastIns
    /\ \A id \in DOMAIN lastIns :
           /\ db.vectorSpace[id] = WithFallback(lastIns[id].Vector)
           /\ db.metadataStore[id] = lastIns[id].Metadata

\* an id was inserted again with another vector and other metadata
C7_Witness ==
    /\ call.op = "Insert"
    /\ call.changed
    /\ StoredRecord(db, call.record.ID).Metadata = call.record.Metadata

\* the ids whose stored vector reaches the threshold
MatchingIds(index, similarityThreshold, queryVector, maxDimensions) ==
    {id \in DOMAIN index.vectorSpace :
        Matches(index, id, similarityThreshold, queryVector, maxDimensions)}

\* C8: an AdvancedQuery(threshold, q, n) that returns, returns exactly the stored
\* records whose similarity to q over n dimensions is >= threshold, each once and
\* with its stored metadata, however many they are, and leaves the index as it was.
C8_AdvancedQueryExact ==
    [][(call'.op = "AdvancedQuery" /\ call'.err = NoErr) =>
         LET ids == MatchingIds(db, call'.similarityThreshold, call'.queryVector,
                                call'.maxDimensions)
             results == call'.results
         IN  /\ Len(results) = Cardinality(ids)
             /\ {results[i] : i \in DOMAIN results} = {StoredRecord(db, id) : id \in ids}
             /\ db' = db]_vars

\* a query over the 50-dimension window with threshold 0.5 returned two records
\* with different vectors
C8_Witness ==
    /\ call.op = "AdvancedQuery"
    /\ call.err = NoErr
    /\ call.similarityThreshold = 5
    /\ call.maxDimensions = QueryDims
    /\ Len(call.results) = 2
    /\ call.results[1].Vector # call.results[2].Vector

\* C9: QueryByDimension(predicate, maxResults) returns at most maxResults records
\* for every maxResults >= 0, every returned record satisfies the predicate, and
\* when fewer than maxResults stored records satisfy it all of them are returned.
C9_QueryByDimensionCap ==
    call.op = "QueryByDimension" =>
        LET selected == {id \in DOMAIN db.vectorSpace : Selects(call.k, db.vectorSpace[id])}
            results == call.results
        IN  /\ Len(results) <= call.maxResults
            /\ \A i \in DOMAIN results : Selects(call.k, results[i].Vector)
            /\ Cardinality(selected) < call.maxResults =>
                   {results[i] : i \in DOMAIN results}
                       = {StoredRecord(db, id) : id \in selected}

----------------------------------------------------------------------------
(* Claims about the lazy vector, checked under SpecVec *)

\* every cached slot holds the generator's value, and the generator was invoked
\* for the indices 0, 1, 2, ... in this order, once each
CacheIsGenerated ==
    /\ \A i \in DOMAIN elements : elements[i] = Gen(VecGenerator, i - 1)
    /\ \A i \in DOMAIN genCalls : genCalls[i] = i - 1
    /\ Len(genCalls) \in {Len(elements), Len(elements) + 1}

\* C10: under any interleaving of GetElement calls on one vector with a pure
\* generator g, GetElement(d) returns g(d); a filled cache slot never changes; the
\* cache never shrinks, and when GetElement(d) returns its length is the maximum of
\* d+1 and the length the call found; missing indices are generated in ascending
\* order.
C10_LazyVector ==
    [][/\ CacheIsGenerated'
       /\ Len(elements') >= Len(elements)
       /\ \A i \in DOMAIN elements : elements'[i] = elements[i]
       /\ call'.op = "GetElement" =>
            /\ call'.value = Gen(VecGenerator, call'.dimension)
            /\ call'.lenAfter = Max(call'.lenBefore, call'.dimension + 1)]_vars

\* a call extended a cache another call had filled, while a third call waited
C10_Witness ==
    /\ call.op = "GetElement"
    /\ call.lenBefore > 0
    /\ call.lenAfter > call.lenBefore
    /\ \E p \in Procs : pc[p] = "lock"

----------------------------------------------------------------------------
(* Claims about the route scorer, checked under SpecRoute *)

\* the score findOptimalRoute gives a candidate
Score(chain, tx) == evaluateRoute(calculateRouteMetrics(chain, tx))

\* the position of the first candidate that no candidate outscores
FirstBest(candidates, tx) ==
    CHOOSE i \in DOMAIN candidates :
        /\ \A j \in DOMAIN candidates : Score(candidates[j], tx) <= Score(candidates[i], tx)
        /\ \A j \in 1 .. i - 1 : Score(candidates[j], tx) < Score(candidates[i], tx)

\* C11: findOptimalRoute(chains, tx) with a non-empty candidate list returns
\* exactly one chain, a candidate whose score is the maximum over all candidates;
\* it returns no chain only when the candidate list is empty.
C11_OptimalRouteIsMaximal ==
    call.op = "findOptimalRoute" =>
        /\ call.chains # <<>> =>
               /\ Len(call.route) = 1
               /\ \E i \in DOMAIN call.chains : call.route[1] = call.chains[i]
               /\ \A i \in DOMAIN call.chains :
                      Score(call.chains[i], call.tx) <= Score(call.route[1], call.tx)
        /\ call.route = <<>> => call.chains = <<>>

ProtocolMetrics(protocol) ==
    LET config == protocolConfigs[protocol] IN
    [Speed |-> (10 * Log1p(config.TPS)) \div config.BlockTime,
     Finality |-> 1000000 \div config.Finality,
     Cost |-> 1000000 - 100000 * config.CostWeight]

\* C13: a candidate whose protocol tag is btc, eth, sol or dot is scored with the
\* speed, finality and cost of that protocol's record, whatever its id; and
\* Initialize registers every configured chain {id, protocol, endpoint} with the
\* tag its protocol field maps to and with its endpoint.
C13_MetricsFollowProtocolTag ==
    /\ call.op = "findOptimalRoute" =>
           \A i \in DOMAIN call.chains :
               call.chains[i].Protocol \in DOMAIN protocolConfigs =>
                   LET m == calculateRouteMetrics(call.chains[i], call.tx)
                       pm == ProtocolMetrics(call.chains[i].Protocol)
                   IN  m.Speed = pm.Speed /\ m.Finality = pm.Finality /\ m.Cost = pm.Cost
    /\ call.op = "Initialize" =>
           \A i \in DOMAIN call.enabledChains :
               LET entry == call.enabledChains[i] IN
               (\A j \in DOMAIN call.enabledChains :
                    j > i => call.enabledChains[j].ID # entry.ID)
               => /\ entry.ID \in DOMAIN chains
                  /\ chains[entry.ID].Protocol = determineProtocol(entry.Protocol)
                  /\ chains[entry.ID].Endpoint = entry.Endpoint

----------------------------------------------------------------------------
(* Claims about the P2P node, checked under SpecNode *)

\* the node ids of a list
Range(list) == {list[i] : i \in DOMAIN list}

\* C14: StoreData(record) emits exactly min(3, number of peers known when it
\* selects) messages, to pairwise distinct peers, each carrying the record's id,
\* and no peer left out has a strictly higher similarity proxy than a selected one.
C14_ReplicationFanOut ==
    [][\A c \in Clients :
          /\ (ppc[c] = "select" /\ ppc'[c] = "send") =>
                 LET selected == job'[c].selected IN
                 /\ Len(selected) = Min(3, Cardinality(DOMAIN peers))
                 /\ Range(selected) \subseteq DOMAIN peers
                 /\ Cardinality(Range(selected)) = Len(selected)
                 /\ \A out \in DOMAIN peers \ Range(selected) : \A in \in Range(selected) :
                        computePeerSimilarity(routingVector, peers[out])
                            <= computePeerSimilarity(routingVector, peers[in])
          /\ (ppc[c] = "send" /\ ppc'[c] # "send") =>
                 /\ Len(job[c].msgs) = Len(job[c].selected)
                 /\ \A i \in DOMAIN job[c].msgs :
                        /\ job[c].msgs[i].RecipientID = job[c].selected[i]
                        /\ job[c].msgs[i].DataID = job[c].record.ID
          /\ (ppc[c] = "send" /\ ppc'[c] = "send" /\ job'[c].msgs # job[c].msgs) =>
                 /\ Len(job'[c].msgs) = Len(job[c].msgs) + 1
                 /\ Len(dataChannel') = Len(dataChannel) + 1
                 /\ dataChannel'[Len(dataChannel')].msg = job'[c].msgs[Len(job'[c].msgs)]
      ]_vars

\* StoreData has sent its three messages with four peers in the table, the
\* newest peer chosen over one of equal similarity
C14_Witness ==
    \E c \in Clients :
        /\ ppc[c] = "send"
        /\ job[c].op = "StoreData"
        /\ Len(job[c].msgs) = 3
        /\ "n4" \in Range(job[c].selected)
        /\ Cardinality(DOMAIN peers) = 4

\* localDatabase.records holds the record under its id
HoldsRecord(record) == record.ID \in DOMAIN records /\ records[record.ID] = record

\* C15: on the running node, with the dispatch task and the callers scheduled
\* fairly, every StoreData call eventually returns, and the local database then
\* holds the record under its id, whatever the number of selected peers, the fill
\* of the queue and the number of callers inside StoreData.
C15_StoreDataReturns ==
    \A c \in Clients :
        (ppc[c] # "idle") ~> (ppc[c] = "idle" /\ HoldsRecord(StoreRecord(c)))

\* a StoreData call that the full queue had kept waiting has returned, its record
\* in the local database
C15_Witness ==
    /\ call.op = "StoreData"
    /\ call.waited
    /\ HoldsRecord(call.record)

\* the ids of the records of a result list
ResultIds(results) == {results[i].ID : i \in DOMAIN results}

\* Similarity(queryVector, record.vector, 50) >= 0.7
SimilarToQuery(queryVector, record) ==
    SimilarityAtLeast(ComputeVectorSimilarity(queryVector, record.Vector, QueryDataDims),
                      QueryDataThreshold)

\* C16: once StoreData(r) has returned, QueryData(v) contains r whenever
\* Similarity(v, r.vector, 50) >= 0.7, and it never contains a local record whose
\* similarity to v is below 0.7.
C16_QueryFindsStored ==
    [][(call'.op = "QueryData" /\ started' = started + 1 /\ ppc' = ppc) =>
          \A id \in DOMAIN records :
              /\ SimilarToQuery(call'.queryVector, records[id])
                     => id \in ResultIds(call'.results)
              /\ id \in ResultIds(call'.results)
                     => SimilarToQuery(call'.queryVector, records[id])
      ]_vars

\* C17: the data-transfer queue never holds more messages than its capacity; a
\* StoreData that finds it full sends nothing until the dispatch task has freed a
\* slot; no message is dropped: the dispatch task receives every message sent,
\* once, in the order of sending.
C17_QueueBoundedFifo ==
    /\ [](/\ Len(dataChannel) <= DataChannelCap
          /\ emitted = received + Len(dataChannel)
          /\ \A i \in DOMAIN dataChannel : dataChannel[i].seq = received + i)
    /\ [][/\ emitted' # emitted =>
                 /\ Len(dataChannel) < DataChannelCap
                 /\ emitted' = emitted + 1
                 /\ received' = received
                 /\ SubSeq(dataChannel', 1, Len(dataChannel)) = dataChannel
          /\ received' # received =>
                 /\ dataChannel # <<>>
                 /\ Head(dataChannel).seq = received'
                 /\ dataChannel' = Tail(dataChannel)
                 /\ emitted' = emitted
          /\ \A c \in Clients : Blocked(c) => job'[c].msgs = job[c].msgs /\ ppc'[c] = ppc[c]
      ]_vars

\* the queue is full again, after a sender it had kept waiting got its three
\* messages in behind those of the dispatch task's earlier receptions
C17_Witness ==
    /\ Len(dataChannel) = DataChannelCap
    /\ received > 0
    /\ \E c \in Clients :
           /\ ppc[c] = "send"
           /\ job[c].waited
           /\ Len(job[c].msgs) = 3

----------------------------------------------------------------------------
(* Claims about the P2PAgglomerator, checked under SpecP2P *)

\* the client is inside the StoreData call of P2PAgglomerator.RegisterChain
Broadcasting(c) == ppc[c] \in {"select", "send"} /\ job[c].op = "RegisterChain"

\* the registry and the global index hold a chain under id
LocallyRegistered(id) ==
    /\ id \in DOMAIN chains
    /\ id \in DOMAIN vectorIndex.vectorSpace

Announced(id) ==
    /\ id \in DOMAIN chains
    /\ id \in DOMAIN records
    /\ IsChainRegistration(records[id])

\* C19: when P2PAgglomerator.ProcessTransaction(tx) looks for its route, every
\* chain registered on this node through P2PAgglomerator.RegisterChain whose state
\* vector has similarity >= 0.7 to tx.StateVector is among the candidates handed
\* to findOptimalRoute, so the call does not fail for lack of candidates.
C19_RegisteredChainsAreCandidates ==
    [][(/\ call'.op = "P2PAgglomerator.ProcessTransaction"
        /\ started' = started + 1
        /\ ppc' = ppc) =>
          \A id \in DOMAIN chains :
              (Announced(id) /\ SimilarToQuery(call'.tx.StateVector, records[id]))
                  => id \in ResultIds(call'.candidates)
      ]_vars

----------------------------------------------------------------------------
(* Claims about the discovery task, checked under SpecDisc *)

\* |routingVector[k] - reputation| < 0.5, both in 255ths
WithinHalf(k, reputation) ==
    /\ 2 * (routingVector[k] - reputation) < 255
    /\ 2 * (reputation - routingVector[k]) < 255

\* C20: a discovery cycle adds its candidate to the peer table iff
\* |routingVector[k] - candidate.reputation| < 0.5 for the dimension k it drew and
\* the table has no entry under the candidate's node id; no entry is ever replaced
\* or removed, and every reputation in the table lies in [0, 1].
C20_DiscoveryOnlyAdds ==
    /\ [](\A id \in DOMAIN peers :
              peers[id].NodeID = id /\ peers[id].Reputation \in 0 .. 255)
    /\ [][call'.op = "DiscoverPeers" =>
              LET candidate == call'.candidatePeer
                  added == DOMAIN peers' \ DOMAIN peers
              IN  /\ added = IF /\ WithinHalf(call'.routingDimension, candidate.Reputation)
                                /\ candidate.NodeID \notin DOMAIN peers
                             THEN {candidate.NodeID}
                             ELSE {}
                  /\ \A id \in added : peers'[id] = candidate
                  /\ \A id \in DOMAIN peers : id \in DOMAIN peers' /\ peers'[id] = peers[id]
      ]_vars

\* a cycle whose candidate was near enough but known already, under another
\* reputation, left the entry as it was
C20_Witness ==
    /\ call.op = "DiscoverPeers"
    /\ WithinHalf(call.routingDimension, call.candidatePeer.Reputation)
    /\ call.candidatePeer.NodeID \in DOMAIN peers
    /\ peers[call.candidatePeer.NodeID].Reputation # call.candidatePeer.Reputation
    /\ Cardinality(DOMAIN peers) = 4

----------------------------------------------------------------------------
(* Claims about failed replication, checked under SpecP2P *)

\* the error kind the caller of StoreData is to see
ReplicationFailure == "ReplicationFailure"

\* the message reaches the peer it is addressed to
Delivered(msg) == msg.RecipientID \in processDataTransfer(msg)

\* C21: when a replication message of StoreData is not delivered, StoreData
\* reports ReplicationFailure and P2PAgglomerator.RegisterChain returns that
\* error instead of success.
C21_ReplicationFailureReported ==
    [][\A c \in Clients :
          (ppc[c] = "send" /\ ppc'[c] = "idle"
              /\ \E i \in DOMAIN job[c].msgs : ~Delivered(job[c].msgs[i]))
          => call'.err = ReplicationFailure
      ]_vars

----------------------------------------------------------------------------
(* Claims about ComputeVectorSimilarity in float64, checked under SpecFloat64 *)

\* the generator of v yields one value for the first n dimensions
ConstantOver64(v, n) ==
    \A i \in 0 .. n - 1 : Gen64(v.Generator, i) = Gen64(v.Generator, 0)

\* C22: ComputeVectorSimilarity returns 0, and never an undefined value, when n is
\* 0 or one of the vectors is constant over its first n elements.
C22_ConstantYieldsZero ==
    (call.op = "ComputeVectorSimilarity" /\ call.result # "pending"
        /\ (call.dimensions = 0 \/ ConstantOver64(call.v1, call.dimensions)
                                \/ ConstantOver64(call.v2, call.dimensions)))
    => call.result = "0"

----------------------------------------------------------------------------
(* Claims about ComputeVectorSimilarity on integer elements, checked under SpecSim *)

\* the first n elements of v are all the same
ConstantOver(v, n) == \A i \in 0 .. n - 1 : ElementOf(v, i) = ElementOf(v, 0)

\* C23: for vectors of integer elements and n >= 1 with a non-zero denominator the
\* similarity lies between -1 and 1: the squared numerator n*Sxy - Sx*Sy is at
\* most (n*Sxx - Sx^2) * (n*Syy - Sy^2), and the returned value is within a
\* million millionths of zero.
C23_SimilarityBounded ==
    (call.op = "ComputeVectorSimilarity" /\ call.dimensions >= 1
        /\ call.sim.denominator2 # 0)
    => /\ call.sim.numerator * call.sim.numerator <= call.sim.denominator2
       /\ call.result >= -1000000
       /\ call.result <= 1000000

\* two different vectors, neither constant, whose similarity is strictly inside
\* the bounds and negative
C23_Witness ==
    /\ call.op = "ComputeVectorSimilarity"
    /\ call.dimensions = MaxSimLen
    /\ call.v1 # call.v2
    /\ call.sim.denominator2 # 0
    /\ call.sim.numerator < 0
    /\ call.sim.numerator * call.sim.numerator < call.sim.denominator2

\* C24: the similarity of a vector with itself over n elements on which it is not
\* constant is 1: numerator and denominator are the same positive number.
C24_SelfSimilarityOne ==
    (call.op = "ComputeVectorSimilarity" /\ call.v1 = call.v2
        /\ ~ConstantOver(call.v1, call.dimensions))
    => /\ call.sim.numerator > 0
       /\ call.sim.numerator * call.sim.numerator = call.sim.denominator2
       /\ call.result = 1000000

\* a vector compared with itself over a window shorter than its cache, on which
\* it takes a negative and a positive value
C24_Witness ==
    /\ call.op = "ComputeVectorSimilarity"
    /\ call.v1 = call.v2
    /\ call.dimensions = 2
    /\ ElementOf(call.v1, 0) < 0
    /\ ElementOf(call.v1, 1) > 0
    /\ call.result = 1000000

----------------------------------------------------------------------------
(* Claims about the compressor, checked under SpecCompress *)

\* the first k values hold the share energyThreshold of the energy of them all
KeepsEnergy(ac, values, k) ==
    100 * SumOfSquares(values, k) >= ac.energyThreshold * SumOfSquares(values, Len(values))

\* the smallest k of 1 .. Len(values) that keeps the energy
SmallestRank(ac, values) ==
    CHOOSE k \in 1 .. Len(values) :
        /\ KeepsEnergy(ac, values, k)
        /\ \A j \in 1 .. k - 1 : ~KeepsEnergy(ac, values, j)

\* C25: DetermineOptimalRank returns 0 for no values or all-zero values,
\* otherwise the smallest k whose first k squared values reach energyThreshold
\* of the sum of all squares, capped at maxRank and at the number of values; the
\* result lies in 0 .. min(maxRank, len(values)).
C25_OptimalRank ==
    call.op = "DetermineOptimalRank"
    => LET values == call.singularValues IN
       /\ call.rank >= 0
       /\ call.rank <= Min(call.ac.maxRank, Len(values))
       /\ call.rank = IF \A i \in DOMAIN values : values[i] = 0 THEN 0
                      ELSE Min(SmallestRank(call.ac, values),
                               Min(call.ac.maxRank, Len(values)))

\* three values of which two are needed for nine tenths of the energy, and a
\* maxRank that does not cap
C25_Witness ==
    /\ call.op = "DetermineOptimalRank"
    /\ call.singularValues = <<3, 3, 1>>
    /\ call.ac.energyThreshold = 90
    /\ call.ac.maxRank = 10
    /\ call.rank = 2

\* C26: for a non-empty input CompressBlock returns a block whose S, U and V
\* have one length, at most maxRank and exactly min(maxRank, number of singular
\* values) under ForceMaxRank, in a matrix shape with rows * cols >= len(input);
\* Decompress of the block succeeds and returns len(input) values.
C26_CompressThenDecompress ==
    (call.op \in {"CompressBlock", "Decompress"} /\ Len(call.blockData) > 0)
    => /\ call.block # NoBlock
       /\ Len(call.block.S) = Len(call.block.U)
       /\ Len(call.block.U) = Len(call.block.V)
       /\ Len(call.block.S) <= call.ac.maxRank
       /\ call.ac.forceMaxRank
            => Len(call.block.S) = Min(call.ac.maxRank, Len(call.singularValues))
       /\ call.block.OriginalRows * call.block.OriginalCols >= Len(call.blockData)
       /\ call.op = "Decompress"
            => call.err = NoErr /\ call.len = Len(call.blockData)

----------------------------------------------------------------------------
(* Claims about the agglomerator's records, checked under SpecAgg *)

\* C27: a ProcessTransaction that fails with NoRouteFound leaves the registry, the
\* global index and every pool as they were; one that fails with ChainNotFound
\* leaves the registry and every pool as they were, also the pool of the endpoint
\* that is registered, and the global index holds the transaction's record and is
\* otherwise as it was.
C27_FailureEffects ==
    [][call'.op = "ProcessTransaction" =>
         LET tx == call'.tx IN
         /\ call'.err = ErrNoRouteFound => chains' = chains /\ vectorIndex' = vectorIndex
         /\ call'.err = ErrChainNotFound =>
               /\ chains' = chains
               /\ HoldsTransaction(vectorIndex', tx)
               /\ \A id \in DOMAIN vectorIndex.vectorSpace \ {tx.ID} :
                     /\ id \in DOMAIN vectorIndex'.vectorSpace
                     /\ vectorIndex'.vectorSpace[id] = vectorIndex.vectorSpace[id]
                     /\ vectorIndex'.metadataStore[id] = vectorIndex.metadataStore[id]
               /\ DOMAIN vectorIndex'.vectorSpace = DOMAIN vectorIndex.vectorSpace \cup {tx.ID}
      ]_vars

\* a transaction from a registered chain to one that is not: it failed with
\* ChainNotFound, its record is in the global index and the sender's pool is empty
C27_Witness ==
    /\ call.op = "ProcessTransaction"
    /\ call.err = ErrChainNotFound
    /\ call.tx.FromChain \in DOMAIN chains
    /\ call.tx.ToChain \notin DOMAIN chains
    /\ call.tx.ID \notin DOMAIN chains
    /\ HoldsTransaction(vectorIndex, call.tx)
    /\ DOMAIN chains[call.tx.FromChain].TransactionPool.vectorSpace = {}

\* C28: for every chain in the registry the global index holds, under the
\* chain's id, the record of its latest registration: its state vector and the
\* metadata protocol and endpoint.
C28_ChainRecordsKept ==
    \A id \in DOMAIN chains :
        /\ id \in DOMAIN vectorIndex.vectorSpace
        /\ id \in DOMAIN vectorIndex.metadataStore
        /\ StoredRecord(vectorIndex, id) =
               DatabaseRecord(id,
                              [protocol |-> lastReg[id].last.Protocol,
                               endpoint |-> lastReg[id].last.Endpoint],
                              WithFallback(lastReg[id].last.StateVector))

----------------------------------------------------------------------------
(* Claims about the agglomerator under concurrent calls, checked under SpecConc *)

\* every registered chain has its record in the global index and a pool
RegistryConsistent ==
    \A id \in DOMAIN chains :
        /\ id \in DOMAIN vectorIndex.vectorSpace
        /\ id \in DOMAIN vectorIndex.metadataStore
        /\ chains[id].TransactionPool # NoPool

\* C29: RegisterChain is atomic for ProcessTransaction, ListChains and GetChain:
\* while one of them is inside its section, every chain of the registry has its
\* record in the global index and has a transaction pool.
C29_RegisterChainAtomic ==
    (\E c \in Clients : ppc[c] \in ReaderPositions) => RegistryConsistent

\* a goroutine is inside GetChain or ListChains and sees a registered chain while
\* the other waits for the exclusive lock to register one
C29_Witness ==
    \E c, d \in Clients :
        /\ ppc[c] \in {"get", "list"}
        /\ DOMAIN chains # {}
        /\ ppc[d] = "lockWait"
        /\ job[d].op = "RegisterChain"

\* goroutine c has returned from a successful ProcessTransaction
Succeeded(c) ==
    /\ ppc[c] = "idle"
    /\ job[c].op = "ProcessTransaction"
    /\ job[c].err = NoErr
    /\ call.op = "ProcessTransaction"

\* the record of tx is in the global index and in the pools of both its endpoints
RecordedEverywhere(tx) ==
    /\ HoldsTransaction(vectorIndex, tx)
    /\ HoldsTransaction(chains[tx.FromChain].TransactionPool, tx)
    /\ HoldsTransaction(chains[tx.ToChain].TransactionPool, tx)

\* C30: when two ProcessTransaction calls with different transaction ids have run
\* concurrently under the shared lock and both have succeeded, the global index
\* and the pools of the endpoints of each hold both records.  The two calls are
\* the only ones made with their ids: a further call with the id of one of them
\* overwrites its record, which is not an interleaving of the two.
C30_ConcurrentInsertsKept ==
    \A c, d \in Clients :
        (/\ c # d
         /\ Succeeded(c) /\ Succeeded(d)
         /\ job[c].overlapped /\ job[d].overlapped
         /\ job[c].tx.ID # job[d].tx.ID
         /\ {job[c].tx.ID, job[d].tx.ID} \cap txIds.again = {})
        => RecordedEverywhere(job[c].tx) /\ RecordedEverywhere(job[d].tx)

\* two transactions with different ids ran concurrently, both succeeded and both
\* records are in the global index and in the pools
C30_Witness ==
    /\ Succeeded("c1") /\ Succeeded("c2")
    /\ job["c1"].overlapped /\ job["c2"].overlapped
    /\ job["c1"].tx.ID # job["c2"].tx.ID
    /\ txIds.again = {}
    /\ RecordedEverywhere(job["c1"].tx)
    /\ RecordedEverywhere(job["c2"].tx)

----------------------------------------------------------------------------
(* Claims about the locks of the running node, checked under SpecLocks *)

\* goroutine g is inside a loop over the entries of node.peers
IteratesPeers(g) == job[g].x.ranging \/ At(g, "selectReplicationPeers")

\* C31: under no interleaving does QueryData or selectReplicationPeers iterate
\* the peer table while connectToPeer of the discovery task inserts into it
C31_NoIterationDuringInsert ==
    \A g, h \in Goroutines : ~(IteratesPeers(g) /\ At(h, "connect"))

\* the mutexes goroutine g holds
HeldBy(g) == {job[g].held[k].mu : k \in DOMAIN job[g].held}

IndexMutexes(outer) ==
    IF outer = AggMu
    THEN {VectorIndexMu} \cup {PoolMu(chain.ID) : chain \in LockChainArgs}
    ELSE IF outer = PeerChainsMu THEN {IndexSpaceMu} ELSE {}

Waits(g) ==
    \/ ppc[g] = "lockWait" /\ ~LockFree(g, NextInstr(g).mu)
    \/ At(g, "RLock") /\ ~RLockFree(g, NextInstr(g).mu)
    \/ /\ At(g, "send")
       /\ job[g].x.sent < Len(job[g].x.selected)
       /\ ~ChannelHasRoom(dataChannel)

ReturnsFromP2P(g) ==
    At(g, "return") /\ job[g].op = "P2PAgglomerator.ProcessTransaction"

\* the hops of goroutine g that GetChain resolved to a local chain, or did not
HopsFound(g, found) == SelectSeq(job[g].x.hops, LAMBDA hop : hop.found = found)

----------------------------------------------------------------------------
(* The element cache of the vectors an index stores, checked under SpecIdx *)

\* the dimensions at which GetElement(0), ..., GetElement(n - 1) on `vector`
\* invoke the generator: those beyond the elements it has cached
GeneratedBy(vector, n) == {d \in 0 .. n - 1 : d >= Len(vector.elements)}

\* C34: the elements AdvancedQuery computed of a stored vector are cached in the
\* stored record, so that the same query again would invoke no generator on it
C34_QueriedElementsCached ==
    (call.op = "AdvancedQuery" /\ call.err = NoErr)
        => \A id \in DOMAIN db.vectorSpace :
               GeneratedBy(db.vectorSpace[id], call.maxDimensions) = {}

----------------------------------------------------------------------------
(* Claims about the module and the registry, checked under SpecModule *)

\* C38: after AgglomeratorModule.Initialize has returned success, GetState() is
\* running
C38_RunningAfterInitialize ==
    (call.op = "Initialize" /\ call.err = NoErr)
        => GetState(modules[AgglomeratorModuleName]) = StateRunning

\* C39: when RegisterWithDeps has returned a missing-dependency error, the
\* module is not in the registry's module map, unless it was there before, and
\* is as it was before the call
C39_FailedRegistrationRolledBack ==
    (call.op = "RegisterWithDeps" /\ call.err = ErrMissingDependency)
        => /\ moduleRegistry.modules = call.before.registry.modules
           /\ modules[call.name] = call.before.module

====
